---- MODULE Spec2Model ----
(***************************************************************************)
(* Matching and estimation engine of the assembly estimator:               *)
(* app/utils/normalization.py, app/services/matching.py,                   *)
(* app/services/estimation.py, app/repositories/items.py and the two       *)
(* request handlers of app/api/routes.py.                                  *)
(*                                                                         *)
(* Strings are sequences of characters.  TLA+ strings are ASCII, so every  *)
(* Cyrillic letter is written as a Latin transliteration token: "k" is the *)
(* letter ka, "sch" the letter shcha, "yo" the letter io (U+0451), "YO"    *)
(* its capital, and so on.  One token is one character.                    *)
(***************************************************************************)
EXTENDS Integers, Sequences, FiniteSets, TLC

VARIABLES
    settings,                 \* app.core.config.settings, the fields estimate reads
    fuzz,                     \* the answers of the rapidfuzz library (external)
    pc,                       \* position of the request being served
    caller,                   \* who invoked estimate: an endpoint or a direct call
    names,                    \* estimate: the names argument
    normalized,               \* estimate: normalized
    exact_by_norm,            \* estimate: exact_by_norm
    found_items,              \* estimate: found_items
    not_found,                \* estimate: not_found
    debug,                    \* estimate: debug["matches"]
    seen_articles_per_input,  \* estimate: seen_articles_per_input
    global_seen_articles,     \* estimate: global_seen_articles
    idx,                      \* estimate: index of the for-loop over zip(names, normalized)
    outcome,                  \* estimate: the returned tuple, or NoOutcome
    response,                 \* the endpoint's answer, or NoResponse
    lookups,                  \* calls received by the repository, in order
    resolved,                 \* per processed input: what it resolves to alone / in this call
    pick                      \* a function of matching.py or normalization.py called on
                              \* its own, or the frame of a second estimate call

vars == <<settings, fuzz, pc, caller, names, normalized, exact_by_norm,
          found_items, not_found, debug, seen_articles_per_input,
          global_seen_articles, idx, outcome, response, lookups, resolved, pick>>

-----------------------------------------------------------------------------
(* Bounds of the model *)

\* longest names list of a request
MaxNames == 3
\* settings.max_candidates as used by the model (LIMIT of the fuzzy lookups)
MaxCandidates == 2
\* longest names list of a request that arrives over HTTP
MaxApiNames == 2

-----------------------------------------------------------------------------
(* Generic helpers *)

None == "None"

Min(a, b) == IF a <= b THEN a ELSE b
Max(a, b) == IF a >= b THEN a ELSE b

\* all sequences over S of length at most n
SeqsUpTo(S, n) == UNION {[1..k -> S] : k \in 0..n}

\* all sequences of pairwise distinct elements of S of length at most n
DistinctSeqsUpTo(S, n) ==
    {s \in SeqsUpTo(S, n) : \A a, b \in 1..Len(s) : a # b => s[a] # s[b]}

Range(s) == {s[k] : k \in 1..Len(s)}

IsPrefix(p, s) == Len(p) <= Len(s) /\ SubSeq(s, 1, Len(p)) = p

-----------------------------------------------------------------------------
(* Characters *)

SpaceChars == {" ", "\t"}
PunctChars == {"-", "."}
UpperChars == {"K", "O", "T", "YO"}
LowerChars == {"a", "v", "e", "i", "j", "k", "l", "n", "o", "p", "r", "s",
               "t", "u", "f", "ch", "sh", "sch", "y", "yu", "ya", "yo"}
DigitChars == {"1", "2"}
\* what the regular expression class \w matches (re.UNICODE)
WordChars == UpperChars \cup LowerChars \cup DigitChars \cup {"_"}

\* str.lower() on one character
lower_char(c) ==
    CASE c = "K" -> "k"
      [] c = "O" -> "o"
      [] c = "T" -> "t"
      [] c = "YO" -> "yo"
      [] OTHER -> c

\* str.strip(): drop leading and trailing whitespace
RECURSIVE lstrip(_)
lstrip(s) ==
    IF s # <<>> /\ Head(s) \in SpaceChars THEN lstrip(Tail(s)) ELSE s

RECURSIVE rstrip(_)
rstrip(s) ==
    IF s # <<>> /\ s[Len(s)] \in SpaceChars
    THEN rstrip(SubSeq(s, 1, Len(s) - 1))
    ELSE s

strip(s) == rstrip(lstrip(s))

\* re.sub(r"[^\w\s]+", " ", text): each run of characters that are neither
\* word characters nor whitespace becomes one space
RECURSIVE sub_nonword(_, _)
sub_nonword(s, inRun) ==
    IF s = <<>> THEN <<>>
    ELSE IF Head(s) \notin WordChars /\ Head(s) \notin SpaceChars
         THEN (IF inRun THEN <<>> ELSE <<" ">>) \o sub_nonword(Tail(s), TRUE)
         ELSE <<Head(s)>> \o sub_nonword(Tail(s), FALSE)

\* re.sub(r"\s+", " ", text): each run of whitespace becomes one space
RECURSIVE sub_space(_, _)
sub_space(s, inRun) ==
    IF s = <<>> THEN <<>>
    ELSE IF Head(s) \in SpaceChars
         THEN (IF inRun THEN <<>> ELSE <<" ">>) \o sub_space(Tail(s), TRUE)
         ELSE <<Head(s)>> \o sub_space(Tail(s), FALSE)

\* normalize_text with lines 8 and 9 in the other order: the letter io is
\* replaced before the string is lower-cased
normalize_text_replace_first(text) ==
    LET t1 == strip(text)
        t2 == [k \in 1..Len(t1) |-> IF t1[k] = "yo" THEN "e" ELSE t1[k]]
        t3 == [k \in 1..Len(t2) |-> lower_char(t2[k])]
        t4 == sub_nonword(t3, FALSE)
        t5 == sub_space(t4, FALSE)
    IN  strip(t5)

normalize_text(text) ==
    LET t1 == strip(text)
        t2 == [k \in 1..Len(t1) |-> lower_char(t1[k])]
        t3 == [k \in 1..Len(t2) |-> IF t2[k] = "yo" THEN "e" ELSE t2[k]]
        t4 == sub_nonword(t3, FALSE)
        t5 == sub_space(t4, FALSE)
    IN  strip(t5)

\* str.split(): the maximal runs of non-whitespace characters, in order
RECURSIVE split_acc(_, _)
split_acc(s, cur) ==
    IF s = <<>> THEN (IF cur = <<>> THEN <<>> ELSE <<cur>>)
    ELSE IF Head(s) \in SpaceChars
         THEN (IF cur = <<>> THEN <<>> ELSE <<cur>>) \o split_acc(Tail(s), <<>>)
         ELSE split_acc(Tail(s), Append(cur, Head(s)))

split(s) == split_acc(s, <<>>)

\* str.replace(old, new): every non-overlapping occurrence, left to right
RECURSIVE str_replace(_, _, _)
str_replace(s, old, new) ==
    IF s = <<>> THEN <<>>
    ELSE IF old # <<>> /\ IsPrefix(old, s)
         THEN new \o str_replace(SubSeq(s, Len(old) + 1, Len(s)), old, new)
         ELSE <<Head(s)>> \o str_replace(Tail(s), old, new)

-----------------------------------------------------------------------------
(* app/services/matching.py *)

\* the keys of SYNONYMS_DICT
SynonymKeys ==
    { <<"k", "o", "t">>,
      <<"sh", "k", "a", "f">>,
      <<"sch", "i", "t">>,
      <<"u", "p", "r", "a", "v", "l", "e", "n", "i", "e">>,
      <<"n", "a", "s", "o", "s">> }

\* SYNONYMS_DICT[token], in list order
SYNONYMS_DICT(token) ==
    CASE token = <<"k", "o", "t">> ->
            << <<"k", "o", "t", "e", "n", "o", "k">>,
               <<"k", "o", "t", "i", "k">>,
               <<"k", "o", "t", "yo", "n", "o", "k">> >>
      [] token = <<"sh", "k", "a", "f">> ->
            << <<"sh", "k", "a", "f", "ch", "i", "k">>,
               <<"sh", "k", "a", "f", "u">> >>
      [] token = <<"sch", "i", "t">> ->
            << <<"sch", "i", "t", "o", "k">>,
               <<"sch", "i", "t", "o", "v", "a", "ya">> >>
      [] token = <<"u", "p", "r", "a", "v", "l", "e", "n", "i", "e">> ->
            << <<"u", "p", "r", "a", "v", "l", "ya", "yu", "sch", "i", "j">>,
               <<"u", "p", "r", "a", "v", "l", "ya", "yu", "sch", "a", "ya">> >>
      [] token = <<"n", "a", "s", "o", "s">> ->
            << <<"n", "a", "s", "o", "s", "n", "y", "j">>,
               <<"n", "a", "s", "o", "s", "n", "a", "ya">> >>
      [] OTHER -> <<>>

\* expand_synonyms without the test "expanded not in queries"
RECURSIVE expand_synonyms_no_dedup(_, _, _, _)
expand_synonyms_no_dedup(query_norm, token, k, queries) ==
    IF k > Len(SYNONYMS_DICT(token)) THEN queries
    ELSE expand_synonyms_no_dedup(query_norm, token, k + 1,
             Append(queries, str_replace(query_norm, token, SYNONYMS_DICT(token)[k])))

\* the inner loop of _expand_query_with_synonyms: one token, its synonyms from k on
RECURSIVE expand_synonyms(_, _, _, _)
expand_synonyms(query_norm, token, k, queries) ==
    IF k > Len(SYNONYMS_DICT(token)) THEN queries
    ELSE LET expanded == str_replace(query_norm, token, SYNONYMS_DICT(token)[k])
         IN  expand_synonyms(query_norm, token, k + 1,
                 IF expanded \in Range(queries) THEN queries
                 ELSE Append(queries, expanded))

\* the outer loop of _expand_query_with_synonyms: the tokens from t on
RECURSIVE expand_tokens(_, _, _, _)
expand_tokens(query_norm, query_tokens, t, queries) ==
    IF t > Len(query_tokens) THEN queries
    ELSE expand_tokens(query_norm, query_tokens, t + 1,
             IF query_tokens[t] \in SynonymKeys
             THEN expand_synonyms(query_norm, query_tokens[t], 1, queries)
             ELSE queries)

_expand_query_with_synonyms(query_norm) ==
    expand_tokens(query_norm, split(query_norm), 1, <<query_norm>>)

\* the five rapidfuzz metrics of a pair of strings, <<ratio, partial_ratio,
\* token_sort_ratio, token_set_ratio, WRatio>>.  rapidfuzz is an external
\* library: equal strings score 100, an empty string against a non-empty one
\* scores 0, every other pair is answered by the table fuzz.
fuzz_metrics(query_norm, name_norm) ==
    IF query_norm = name_norm THEN <<100, 100, 100, 100, 100>>
    ELSE IF query_norm = <<>> \/ name_norm = <<>> THEN <<0, 0, 0, 0, 0>>
    ELSE IF <<query_norm, name_norm>> \in DOMAIN fuzz
         THEN fuzz[<<query_norm, name_norm>>]
         ELSE <<0, 0, 0, 0, 0>>

\* coverage_bonus without the test `coverage >= 0.8` of line 55
coverage_bonus_no_threshold(query_tokens, name_tokens) ==
    IF query_tokens # {} /\ name_tokens # {}
    THEN (10 * Cardinality(query_tokens \cap name_tokens))
            \div Cardinality(query_tokens)
    ELSE 0

\* coverage_bonus of _calculate_similarity_score
coverage_bonus(query_tokens, name_tokens) ==
    IF query_tokens # {} /\ name_tokens # {}
    THEN LET covered == Cardinality(query_tokens \cap name_tokens)
             total == Cardinality(query_tokens)
         IN  IF 10 * covered >= 8 * total      \* coverage >= 0.8
             THEN (10 * covered) \div total    \* int(coverage * 10)
             ELSE 0
    ELSE 0

\* prefix_bonus of _calculate_similarity_score, before the cap
prefix_bonus(query_tokens, name_tokens) ==
    IF query_tokens # {} /\ name_tokens # {}
    THEN 5 * Cardinality(
            {p \in query_tokens \X name_tokens :
                \/ Len(p[1]) >= 3 /\ IsPrefix(p[1], p[2])
                \/ Len(p[2]) >= 3 /\ IsPrefix(p[2], p[1])})
    ELSE 0

\* _calculate_similarity_score without the cap of line 70
_calculate_similarity_score_uncapped(query_norm, name_norm) ==
    LET query_tokens == Range(split(query_norm))
        name_tokens == Range(split(name_norm))
        m == fuzz_metrics(query_norm, name_norm)
        base_score == Max(m[1], Max(m[2], Max(m[3], Max(m[4], m[5]))))
    IN  base_score + coverage_bonus(query_tokens, name_tokens)
        + Min(prefix_bonus(query_tokens, name_tokens), 10)

_calculate_similarity_score(query_norm, name_norm) ==
    LET query_tokens == Range(split(query_norm))
        name_tokens == Range(split(name_norm))
        m == fuzz_metrics(query_norm, name_norm)
        base_score == Max(m[1], Max(m[2], Max(m[3], Max(m[4], m[5]))))
    IN  Min(100, base_score + coverage_bonus(query_tokens, name_tokens)
                 + Min(prefix_bonus(query_tokens, name_tokens), 10))

\* candidate.get("name_norm") or ""
name_norm_or_empty(candidate) ==
    IF candidate.name_norm = None THEN <<>> ELSE candidate.name_norm

\* the inner loop of rank_candidates: the best score over the query variants
RECURSIVE max_score_over(_, _, _, _)
max_score_over(expanded_queries, name_norm, k, max_score) ==
    IF k > Len(expanded_queries) THEN max_score
    ELSE max_score_over(expanded_queries, name_norm, k + 1,
             Max(max_score, _calculate_similarity_score(expanded_queries[k], name_norm)))

\* insert_by_score of a sort that is not stable: an element goes before the
\* elements whose score equals its own
RECURSIVE insert_by_score_unstable(_, _)
insert_by_score_unstable(sorted, e) ==
    IF sorted = <<>> THEN <<e>>
    ELSE IF Head(sorted)[1] > e[1]
         THEN <<Head(sorted)>> \o insert_by_score_unstable(Tail(sorted), e)
         ELSE <<e>> \o sorted

\* list.sort(key=score, reverse=True) is stable: an element goes behind every
\* element whose score is at least its own
RECURSIVE insert_by_score(_, _)
insert_by_score(sorted, e) ==
    IF sorted = <<>> THEN <<e>>
    ELSE IF Head(sorted)[1] >= e[1]
         THEN <<Head(sorted)>> \o insert_by_score(Tail(sorted), e)
         ELSE <<e>> \o sorted

RECURSIVE sort_by_score(_, _)
sort_by_score(scored, acc) ==
    IF scored = <<>> THEN acc
    ELSE sort_by_score(Tail(scored), insert_by_score(acc, Head(scored)))

\* rank_candidates without the sort of line 94
rank_candidates_unsorted(query_norm, candidates) ==
    LET expanded_queries == _expand_query_with_synonyms(query_norm)
    IN  [k \in 1..Len(candidates) |->
            <<max_score_over(expanded_queries,
                             name_norm_or_empty(candidates[k]), 1, 0),
              candidates[k]>>]

rank_candidates(query_norm, candidates) ==
    LET expanded_queries == _expand_query_with_synonyms(query_norm)
        scored == [k \in 1..Len(candidates) |->
                     <<max_score_over(expanded_queries,
                                      name_norm_or_empty(candidates[k]), 1, 0),
                       candidates[k]>>]
    IN  sort_by_score(scored, <<>>)

\* pick_loop with the threshold test written "score <= fuzzy_min_score"
RECURSIVE pick_loop_exclusive(_, _, _, _, _)
pick_loop_exclusive(ranked, k, results, max_results, min_score) ==
    IF k > Len(ranked) THEN results
    ELSE IF ranked[k][1] <= min_score THEN results
    ELSE LET appended == Append(results, [row |-> ranked[k][2],
                                          match_score |-> ranked[k][1]])
         IN  IF Len(appended) >= max_results THEN appended
             ELSE pick_loop_exclusive(ranked, k + 1, appended, max_results, min_score)

\* pick_loop that records 100 as the match_score of every kept candidate
RECURSIVE pick_loop_full_score(_, _, _, _, _)
pick_loop_full_score(ranked, k, results, max_results, min_score) ==
    IF k > Len(ranked) THEN results
    ELSE IF ranked[k][1] < min_score THEN results
    ELSE LET appended == Append(results, [row |-> ranked[k][2], match_score |-> 100])
         IN  IF Len(appended) >= max_results THEN appended
             ELSE pick_loop_full_score(ranked, k + 1, appended, max_results, min_score)

\* the loop of pick_best_matches from position k of the ranking on
RECURSIVE pick_loop(_, _, _, _, _)
pick_loop(ranked, k, results, max_results, min_score) ==
    IF k > Len(ranked) THEN results
    ELSE IF ranked[k][1] < min_score THEN results
    ELSE LET candidate_copy == [row |-> ranked[k][2], match_score |-> ranked[k][1]]
             appended == Append(results, candidate_copy)
         IN  IF Len(appended) >= max_results THEN appended
             ELSE pick_loop(ranked, k + 1, appended, max_results, min_score)

pick_best_matches(query_norm, candidates, max_results) ==
    pick_loop(rank_candidates(query_norm, candidates), 1, <<>>, max_results,
              settings.fuzzy_min_score)

-----------------------------------------------------------------------------
(* The data of the model: rows of the items table, request inputs, settings *)

\* "кот 1", "щит у", "щиток" transliterated
KOT_1 == <<"k", "o", "t", " ", "1">>
SCHIT_U == <<"sch", "i", "t", " ", "u">>
SCHITOK == <<"sch", "i", "t", "o", "k">>

\* rows as BASE_SELECT returns them; article is NULL in row 4; row 5 is an
\* item imported with the name "-", whose name_norm is normalize_text("-")
Items ==
    { [id |-> 1, name |-> "Kot 1", name_norm |-> KOT_1, article |-> "X1",
       cabinet_code |-> "C1", project_code |-> "P1", type_name |-> "T1",
       stage_name |-> "S1", assembly_time_minutes |-> 30],
      [id |-> 2, name |-> "KOT 1", name_norm |-> KOT_1, article |-> "X2",
       cabinet_code |-> "C2", project_code |-> "P1", type_name |-> "T1",
       stage_name |-> "S1", assembly_time_minutes |-> 20],
      [id |-> 3, name |-> "Schit U", name_norm |-> SCHIT_U, article |-> "X3",
       cabinet_code |-> "C1", project_code |-> "P2", type_name |-> "T2",
       stage_name |-> "S2", assembly_time_minutes |-> 45],
      [id |-> 4, name |-> "Schitok", name_norm |-> SCHITOK, article |-> None,
       cabinet_code |-> "C2", project_code |-> "P2", type_name |-> "T2",
       stage_name |-> "S2", assembly_time_minutes |-> 10],
      [id |-> 5, name |-> "-", name_norm |-> <<>>, article |-> "X5",
       cabinet_code |-> "C1", project_code |-> "P1", type_name |-> "T1",
       stage_name |-> "S1", assembly_time_minutes |-> 5] }

\* the names rapidfuzz is asked about; the empty name is scored without it
ItemNames == {r.name_norm : r \in Items} \ {<<>>}

\* the strings a request may name: "Кот-1", "кот 1", "щиток", " ."
NameSet ==
    { <<"K", "o", "t", "-", "1">>,
      KOT_1,
      SCHITOK,
      <<" ", ".">> }

\* the normalized forms of the strings a request may name
OwnQueries == {normalize_text(n) : n \in NameSet}

\* every string the scorer can be asked about as a query
QueryVariants ==
    UNION {Range(_expand_query_with_synonyms(normalize_text(n))) : n \in NameSet}

\* one answer of rapidfuzz with maximum v, the maximum not in a fixed place
Metrics(v) == <<v \div 2, v, v \div 3, 0, v - (v % 10)>>

\* a table of rapidfuzz answers: lvl[n] for an input's own normalized form
\* against the name n, syn[n] for a synonym-substituted form against n
FuzzTable(lvl, syn) ==
    [p \in {q \in QueryVariants \X ItemNames : q[1] # <<>> /\ q[1] # q[2]} |->
        Metrics(IF p[1] \in OwnQueries THEN lvl[p[2]] ELSE syn[p[2]])]

NameLevels(a, b, c) ==
    [n \in ItemNames |-> IF n = KOT_1 THEN a ELSE IF n = SCHIT_U THEN b ELSE c]

\* the table the served requests are checked with: "щиток" reaches the two
\* "кот 1" rows at exactly the threshold and misses "щит у" by one point,
\* "кот 1" reaches "щит у" through a synonym-substituted form only
FuzzTables ==
    { FuzzTable(NameLevels(70, 64, 0), NameLevels(0, 75, 0)) }

\* Settings of app.core.config: the fields the engine reads
fuzzy_min_score == 70

SettingsSet ==
    [use_pg_trgm : BOOLEAN,
     fuzzy_min_score : {fuzzy_min_score},
     max_candidates : {MaxCandidates},
     max_results_per_input : {0, 1, 2}]

NoOutcome == [kind |-> "none"]
NoResponse == [kind |-> "none"]
NoPick == [kind |-> "none"]

-----------------------------------------------------------------------------
(* app/repositories/items.py: what a lookup may answer.  The table content  *)
(* and the project/cabinet filters of _build_filters are not fixed: a       *)
(* lookup answers with any list of distinct rows its WHERE clause admits.   *)

\* WHERE COALESCE(i.name_norm, LOWER(i.name)) IN :names
fetch_exact_matches(names_norm) ==
    DistinctSeqsUpTo({r \in Items : r.name_norm \in Range(names_norm)},
                     Cardinality(Items))

\* WHERE name_norm % :name_norm ... LIMIT :limit; the empty string has no
\* trigram in common with any name
fetch_candidates_pg_trgm(name_norm, limit) ==
    IF name_norm = <<>> THEN {<<>>}
    ELSE DistinctSeqsUpTo({r \in Items : r.name_norm # <<>>}, limit)

\* s ILIKE '%token%'
Contains(s, token) ==
    \E k \in 0..(Len(s) - Len(token)) : SubSeq(s, k + 1, k + Len(token)) = token

\* WHERE name_norm ILIKE ANY(:patterns) LIMIT :limit; no pattern, no query
fetch_candidates_token(tokens, limit) ==
    IF tokens = <<>> THEN {<<>>}
    ELSE DistinctSeqsUpTo(
             {r \in Items : \E k \in 1..Len(tokens) : Contains(r.name_norm, tokens[k])},
             limit)

-----------------------------------------------------------------------------
(* app/services/estimation.py *)

\* _row_to_match that labels the entry with the last input of the call
_row_to_match_last_input(user_input, row, score) ==
    [user_input |-> names[Len(names)],
     matched_name |-> row.name,
     match_score |-> score,
     article |-> row.article,
     cabinet |-> row.cabinet_code,
     project |-> row.project_code,
     nomenclature_type |-> row.type_name,
     stage |-> row.stage_name,
     time_per_unit |-> row.assembly_time_minutes]

_row_to_match(user_input, row, score) ==
    [user_input |-> user_input,
     matched_name |-> row.name,
     match_score |-> score,
     article |-> row.article,
     cabinet |-> row.cabinet_code,
     project |-> row.project_code,
     nomenclature_type |-> row.type_name,
     stage |-> row.stage_name,
     time_per_unit |-> row.assembly_time_minutes]

\* exact_get with the group looked up under the raw input, not its normalized form
exact_get_by_input(k) ==
    IF names[k] \in DOMAIN exact_by_norm THEN exact_by_norm[names[k]]
    ELSE <<>>

\* exact = exact_by_norm.get(norm) for the input at position k; <<>> when absent
exact_get(k) ==
    IF normalized[k] \in DOMAIN exact_by_norm THEN exact_by_norm[normalized[k]]
    ELSE <<>>

\* is_unclaimed without the test of the article itself
is_unclaimed_any_article(article, user_input) ==
    article \notin global_seen_articles

\* is_unclaimed with the test made against the input's own set seen_articles
is_unclaimed_per_input(article, user_input) ==
    /\ article # None
    /\ article # ""
    /\ \/ user_input \notin DOMAIN seen_articles_per_input
       \/ article \notin seen_articles_per_input[user_input]

\* the acceptance test of both paths: article and article not in global_seen_articles
is_unclaimed(article, user_input) ==
    /\ article # None
    /\ article # ""
    /\ article \notin global_seen_articles

\* first_unclaimed without the break: the last acceptable row wins
RECURSIVE first_unclaimed_no_break(_, _, _)
first_unclaimed_no_break(rows, user_input, k) ==
    IF k > Len(rows) THEN 0
    ELSE LET later == first_unclaimed_no_break(rows, user_input, k + 1)
         IN  IF later # 0 THEN later
             ELSE IF is_unclaimed(rows[k].article, user_input) THEN k
             ELSE 0

\* the for ... break loops: position of the first acceptable row from k on, 0 if none
RECURSIVE first_unclaimed(_, _, _)
first_unclaimed(rows, user_input, k) ==
    IF k > Len(rows) THEN 0
    ELSE IF is_unclaimed(rows[k].article, user_input) THEN k
    ELSE first_unclaimed(rows, user_input, k + 1)

\* the article an input with these rows gets when nothing is claimed yet
RECURSIVE first_with_article(_, _)
first_with_article(rows, k) ==
    IF k > Len(rows) THEN None
    ELSE IF rows[k].article # None /\ rows[k].article # "" THEN rows[k].article
    ELSE first_with_article(rows, k + 1)

\* exact_by_norm[row["name_norm"]].append(row) over exact_rows
group_by_norm(exact_rows) ==
    [n \in {exact_rows[k].name_norm : k \in 1..Len(exact_rows)} |->
        SelectSeq(exact_rows, LAMBDA r : r.name_norm = n)]

\* seen_articles_per_input after setdefault(user_input, set()) and an optional add
seen_after(user_input, added) ==
    [u \in DOMAIN seen_articles_per_input \cup {user_input} |->
        (IF u \in DOMAIN seen_articles_per_input
         THEN seen_articles_per_input[u] ELSE {})
        \cup (IF u = user_input THEN added ELSE {})]

\* total_by with "=" in place of "+="
RECURSIVE total_by_overwrite(_, _, _, _)
total_by_overwrite(items, key, k, total) ==
    IF k > Len(items) THEN total
    ELSE LET code == IF key = "cabinet" THEN items[k].cabinet ELSE items[k].project
         IN  total_by_overwrite(items, key, k + 1,
                 [c \in DOMAIN total \cup {code} |->
                     IF c = code THEN items[k].time_per_unit ELSE total[c]])

\* total_by started from a mapping with a zero for every code of the catalog
RECURSIVE total_by_zero_filled(_, _, _, _)
total_by_zero_filled(items, key, k, total) ==
    IF k > Len(items)
    THEN [c \in DOMAIN total \cup {IF key = "cabinet" THEN r.cabinet_code
                                   ELSE r.project_code : r \in Items} |->
             IF c \in DOMAIN total THEN total[c] ELSE 0]
    ELSE LET code == IF key = "cabinet" THEN items[k].cabinet ELSE items[k].project
             before == IF code \in DOMAIN total THEN total[code] ELSE 0
         IN  total_by_zero_filled(items, key, k + 1,
                 [c \in DOMAIN total \cup {code} |->
                     IF c = code THEN before + items[k].time_per_unit ELSE total[c]])

\* one of the two totals loops: total[item[key]] += int(item["time_per_unit"])
RECURSIVE total_by(_, _, _, _)
total_by(items, key, k, total) ==
    IF k > Len(items) THEN total
    ELSE LET code == IF key = "cabinet" THEN items[k].cabinet ELSE items[k].project
             before == IF code \in DOMAIN total THEN total[code] ELSE 0
         IN  total_by(items, key, k + 1,
                 [c \in DOMAIN total \cup {code} |->
                     IF c = code THEN before + items[k].time_per_unit ELSE total[c]])

EmptyDict == [c \in {} |-> 0]

\* the state of an estimate call at its first line
StartEstimate(who, ns) ==
    /\ caller' = who
    /\ names' = ns
    /\ normalized' = [k \in 1..Len(ns) |-> normalize_text(ns[k])]
    /\ lookups' = Append(lookups, [fn |-> "fetch_exact_matches", at |-> 0,
                                   status |-> "pending"])
    /\ pc' = "fetch_exact"
    /\ UNCHANGED <<exact_by_norm, found_items, not_found, debug,
                   seen_articles_per_input, global_seen_articles, idx,
                   outcome, resolved>>

SetStatus(log, st) == [log EXCEPT ![Len(log)].status = st]

\* estimate is left, by return or by an exception: its locals are gone
LocalsDropped ==
    /\ normalized' = <<>>
    /\ exact_by_norm' = <<>>
    /\ found_items' = <<>>
    /\ not_found' = <<>>
    /\ debug' = <<>>
    /\ seen_articles_per_input' = <<>>
    /\ global_seen_articles' = {}
    /\ idx' = 0
    /\ resolved' = <<>>

\* await items_repo.fetch_exact_matches(...) returns
FetchExactReturns ==
    /\ pc = "fetch_exact"
    /\ \E exact_rows \in fetch_exact_matches(normalized) :
          exact_by_norm' = group_by_norm(exact_rows)
    /\ lookups' = SetStatus(lookups, "ok")
    /\ idx' = 1
    /\ pc' = "loop"
    /\ UNCHANGED <<settings, fuzz, caller, names, normalized, found_items, not_found,
                   debug, seen_articles_per_input, global_seen_articles, outcome,
                   response, resolved, pick>>

\* await items_repo.fetch_exact_matches(...) raises: estimate has no handler
FetchExactRaises ==
    /\ pc = "fetch_exact"
    /\ lookups' = SetStatus(lookups, "raised")
    /\ pc' = "raised"
    /\ LocalsDropped
    /\ UNCHANGED <<settings, fuzz, caller, names, outcome, response, pick>>

\* one iteration of the for-loop on the exact path (if exact: ... continue)
ResolveExact ==
    /\ pc = "loop"
    /\ idx <= Len(names)
    /\ exact_get(idx) # <<>>
    /\ LET user_input == names[idx]
           exact == exact_get(idx)
           k == first_unclaimed(exact, user_input, 1)
           added == IF k = 0 THEN {} ELSE {exact[k].article}
       IN  /\ debug' = Append(debug, [input |-> user_input, exact |-> Len(exact),
                                      fuzzy |-> 0])
           /\ global_seen_articles' = global_seen_articles \cup added
           /\ seen_articles_per_input' = seen_after(user_input, added)
           /\ found_items' = IF k = 0 THEN found_items
                             ELSE Append(found_items,
                                         _row_to_match(user_input, exact[k], 100))
           /\ resolved' = Append(resolved,
                              [alone |-> first_with_article(exact, 1),
                               got |-> IF k = 0 THEN None ELSE exact[k].article])
    /\ idx' = idx + 1
    /\ UNCHANGED <<settings, fuzz, pc, caller, names, normalized, exact_by_norm,
                   not_found, outcome, response, lookups, pick>>

\* one iteration reaches the fuzzy lookup: the call is made and awaited
CallFetchCandidates ==
    /\ pc = "loop"
    /\ idx <= Len(names)
    /\ exact_get(idx) = <<>>
    /\ lookups' = Append(lookups,
                     [fn |-> IF settings.use_pg_trgm THEN "fetch_candidates_pg_trgm"
                             ELSE "fetch_candidates_token",
                      at |-> idx, status |-> "pending"])
    /\ pc' = "fetch_candidates"
    /\ UNCHANGED <<settings, fuzz, caller, names, normalized, exact_by_norm,
                   found_items, not_found, debug, seen_articles_per_input,
                   global_seen_articles, idx, outcome, response, resolved, pick>>

\* what the awaited fuzzy lookup of the input at position k may answer
fetch_candidates(k) ==
    IF settings.use_pg_trgm
    THEN fetch_candidates_pg_trgm(normalized[k], settings.max_candidates)
    ELSE fetch_candidates_token(split(normalized[k]), settings.max_candidates)

\* lines 88-107 for the input at idx, given the rows the lookup returned:
\* best, its rows, and the position in best of the accepted row (0: none)
fuzzy_accept(candidates) ==
    LET best == pick_best_matches(normalized[idx], candidates,
                                  settings.max_results_per_input)
        rows == [j \in 1..Len(best) |-> best[j].row]
    IN  [best |-> best, rows |-> rows, k |-> first_unclaimed(rows, names[idx], 1)]

\* the fuzzy lookup returns: pick_best_matches and the acceptance loop
FetchCandidatesReturns ==
    /\ pc = "fetch_candidates"
    /\ \E candidates \in fetch_candidates(idx) :
       \E acc \in {fuzzy_accept(candidates)} :
          LET best == acc.best
              rows == acc.rows
              k == acc.k
              user_input == names[idx]
              added == IF k = 0 THEN {} ELSE {rows[k].article}
          IN  /\ debug' = Append(debug, [input |-> user_input, exact |-> 0,
                                         fuzzy |-> Len(best)])
              /\ not_found' = IF best = <<>> THEN Append(not_found, user_input)
                              ELSE not_found
              /\ global_seen_articles' = global_seen_articles \cup added
              /\ seen_articles_per_input' = seen_after(user_input, added)
              /\ found_items' = IF k = 0 THEN found_items
                                ELSE Append(found_items,
                                            _row_to_match(user_input, rows[k],
                                                          best[k].match_score))
              /\ resolved' = Append(resolved,
                                 [alone |-> first_with_article(rows, 1),
                                  got |-> IF k = 0 THEN None ELSE rows[k].article])
    /\ lookups' = SetStatus(lookups, "ok")
    /\ idx' = idx + 1
    /\ pc' = "loop"
    /\ UNCHANGED <<settings, fuzz, caller, names, normalized, exact_by_norm,
                   outcome, response, pick>>

\* FetchCandidatesRaises with the error caught per input: the input is
\* reported as not found and the loop goes on
FetchCandidatesRaisesSwallowed ==
    /\ pc = "fetch_candidates"
    /\ settings.use_pg_trgm \/ split(normalized[idx]) # <<>>
    /\ lookups' = SetStatus(lookups, "raised")
    /\ not_found' = Append(not_found, names[idx])
    /\ debug' = Append(debug, [input |-> names[idx], exact |-> 0, fuzzy |-> 0])
    /\ resolved' = Append(resolved, [alone |-> None, got |-> None])
    /\ idx' = idx + 1
    /\ pc' = "loop"
    /\ UNCHANGED <<settings, fuzz, caller, names, normalized, exact_by_norm,
                   found_items, seen_articles_per_input, global_seen_articles,
                   outcome, response, pick>>

\* the fuzzy lookup raises (only a lookup that reaches session.execute can)
FetchCandidatesRaises ==
    /\ pc = "fetch_candidates"
    /\ settings.use_pg_trgm \/ split(normalized[idx]) # <<>>
    /\ lookups' = SetStatus(lookups, "raised")
    /\ pc' = "raised"
    /\ LocalsDropped
    /\ UNCHANGED <<settings, fuzz, caller, names, outcome, response, pick>>

\* after the loop: the totals and the return statement
Aggregate ==
    /\ pc = "loop"
    /\ idx > Len(names)
    /\ outcome' = [kind |-> "outcome",
                   found_items |-> found_items,
                   not_found |-> not_found,
                   total_by_cabinet |-> total_by(found_items, "cabinet", 1, EmptyDict),
                   total_by_project |-> total_by(found_items, "project", 1, EmptyDict),
                   debug |-> debug]
    /\ pc' = "returned"
    /\ LocalsDropped
    /\ UNCHANGED <<settings, fuzz, caller, names, response, lookups, pick>>

-----------------------------------------------------------------------------
(* app/api/routes.py and direct callers of estimate *)

EstimateResponse(found, missing, by_cabinet, by_project, report, warnings, raw_debug) ==
    [found_items |-> found,
     not_found_items |-> missing,
     total_time_by_cabinet |-> by_cabinet,
     total_time_by_project |-> by_project,
     report |-> report,
     warnings |-> warnings,
     raw_debug |-> raw_debug]

EmptyEstimateResponse(warning) ==
    EstimateResponse(<<>>, <<>>, EmptyDict, EmptyDict, None, <<warning>>, None)

\* the lists a direct caller can pass as names
NameLists == SeqsUpTo(NameSet, MaxNames)

\* the lists a payload can carry in names
ApiNameLists == SeqsUpTo(NameSet, MaxApiNames)

\* MatchedItem(**item): the fields of the entry, and the defaults of the
\* fields estimate does not set
MatchedItem(item) ==
    [user_input |-> item.user_input,
     matched_name |-> item.matched_name,
     match_score |-> item.match_score,
     article |-> item.article,
     cabinet |-> item.cabinet,
     project |-> item.project,
     nomenclature_type_code |-> None,
     nomenclature_type |-> item.nomenclature_type,
     stage_code |-> None,
     stage |-> item.stage,
     operation_code |-> None,
     operation_name |-> None,
     quantity_per_unit |-> 1,
     total_quantity |-> 1,
     time_per_unit |-> item.time_per_unit]

\* [MatchedItem(**item) for item in found_items]
MatchedItems(found) == [k \in 1..Len(found) |-> MatchedItem(found[k])]

\* the payload of a request and the enable_llm setting the handler will read;
\* names is empty for a payload without names, want_llm is format_report of
\* an EstimateRequest and use_llm of a ChatRequest
Request(endpoint, mode, ns, want_llm, enable_llm) ==
    [kind |-> "request", endpoint |-> endpoint, mode |-> mode, names |-> ns,
     want_llm |-> want_llm, enable_llm |-> enable_llm]

ChatModes == {"auto", "chat", "estimate"}

\* chat_endpoint with the test of line 113 reduced to "names were sent"
ChatBranchByNames(mode, ns) ==
    IF mode = "estimate" /\ ns = <<>> THEN "no_names"
    ELSE IF ns # <<>> THEN "estimate"
    ELSE "chat_only"

\* the branch chat_endpoint takes: the tests of lines 100 and 113
ChatBranch(mode, ns) ==
    IF mode = "estimate" /\ ns = <<>> THEN "no_names"
    ELSE IF mode = "estimate" \/ (mode = "auto" /\ ns # <<>>) THEN "estimate"
    ELSE "chat_only"

\* POST /v1/estimate with an empty names list: EstimateRequest.names has
\* min_length=1 and the handler raises HTTPException(400) for "not payload.names"
EstimateEndpointRejects ==
    /\ pc = "idle"
    /\ \E format_report \in BOOLEAN, enable_llm \in BOOLEAN :
          pick' = Request("estimate_endpoint", None, <<>>, format_report, enable_llm)
    /\ caller' = "estimate_endpoint"
    /\ names' = <<>>
    /\ response' = [kind |-> "HTTPException", llm |-> "none"]
    /\ pc' = "done"
    /\ UNCHANGED <<settings, fuzz, normalized, exact_by_norm, found_items, not_found,
                   debug, seen_articles_per_input, global_seen_articles, idx,
                   outcome, lookups, resolved>>

\* POST /v1/estimate with names: await estimate(...)
EstimateEndpointCalls ==
    /\ pc = "idle"
    /\ \E ns \in ApiNameLists \ {<<>>}, format_report \in BOOLEAN,
          enable_llm \in BOOLEAN :
          /\ StartEstimate("estimate_endpoint", ns)
          /\ pick' = Request("estimate_endpoint", None, ns, format_report, enable_llm)
    /\ UNCHANGED <<settings, fuzz, response>>

\* POST /v1/estimate after estimate returned, with the try around
\* format_report removed: an error of the text generation propagates
EstimateEndpointRespondsUnguarded ==
    /\ pc = "returned"
    /\ caller = "estimate_endpoint"
    /\ \E llm_ok \in BOOLEAN :
          LET called == pick.want_llm /\ pick.enable_llm
          IN  response' =
                 IF called /\ ~llm_ok THEN [kind |-> "error", llm |-> "format_report"]
                 ELSE [kind |-> "EstimateResponse",
                       data |-> EstimateResponse(MatchedItems(outcome.found_items),
                                    outcome.not_found, outcome.total_by_cabinet,
                                    outcome.total_by_project,
                                    IF called THEN "report" ELSE None,
                                    IF pick.want_llm /\ ~pick.enable_llm
                                    THEN <<"llm disabled">> ELSE <<>>,
                                    outcome.debug),
                       llm |-> IF called THEN "format_report" ELSE "none",
                       llm_result |-> IF ~pick.want_llm THEN "not requested"
                                      ELSE IF ~pick.enable_llm THEN "disabled"
                                      ELSE "succeeded"]
    /\ pc' = "done"
    /\ UNCHANGED <<settings, fuzz, caller, names, normalized, exact_by_norm,
                   found_items, not_found, debug, seen_articles_per_input,
                   global_seen_articles, idx, outcome, lookups, resolved, pick>>

\* POST /v1/estimate after estimate returned: the optional report, the response
EstimateEndpointResponds ==
    /\ pc = "returned"
    /\ caller = "estimate_endpoint"
    /\ \E llm_ok \in BOOLEAN :
          LET called == pick.want_llm /\ pick.enable_llm
              report == IF called /\ llm_ok THEN "report" ELSE None
              warnings == IF ~pick.want_llm THEN <<>>
                          ELSE IF ~pick.enable_llm THEN <<"llm disabled">>
                          ELSE IF llm_ok THEN <<>>
                          ELSE <<"ollama failed">>
          IN  response' = [kind |-> "EstimateResponse",
                           data |-> EstimateResponse(MatchedItems(outcome.found_items),
                                        outcome.not_found, outcome.total_by_cabinet,
                                        outcome.total_by_project, report, warnings,
                                        outcome.debug),
                           llm |-> IF called THEN "format_report" ELSE "none",
                           llm_result |-> IF ~pick.want_llm THEN "not requested"
                                          ELSE IF ~pick.enable_llm THEN "disabled"
                                          ELSE IF llm_ok THEN "succeeded"
                                          ELSE "raised"]
    /\ pc' = "done"
    /\ UNCHANGED <<settings, fuzz, caller, names, normalized, exact_by_norm,
                   found_items, not_found, debug, seen_articles_per_input,
                   global_seen_articles, idx, outcome, lookups, resolved, pick>>

\* POST /v1/estimate when estimate raised: the handler has no try, the error propagates
EstimateEndpointFails ==
    /\ pc = "raised"
    /\ caller = "estimate_endpoint"
    /\ response' = [kind |-> "error", llm |-> "none"]
    /\ pc' = "done"
    /\ UNCHANGED <<settings, fuzz, caller, names, normalized, exact_by_norm,
                   found_items, not_found, debug, seen_articles_per_input,
                   global_seen_articles, idx, outcome, lookups, resolved, pick>>

\* POST /v1/chat, mode "estimate" without names (None or empty)
ChatEndpointNoNames ==
    /\ pc = "idle"
    /\ \E mode \in ChatModes, ns \in ApiNameLists, use_llm \in BOOLEAN,
          enable_llm \in BOOLEAN :
          /\ ChatBranch(mode, ns) = "no_names"
          /\ pick' = Request("chat_endpoint", mode, ns, use_llm, enable_llm)
          /\ names' = ns
    /\ caller' = "chat_endpoint"
    /\ response' = [kind |-> "ChatResponse", reply |-> "no names",
                    data |-> EmptyEstimateResponse("estimate mode needs names"),
                    llm |-> "none"]
    /\ pc' = "done"
    /\ UNCHANGED <<settings, fuzz, normalized, exact_by_norm, found_items, not_found,
                   debug, seen_articles_per_input, global_seen_articles, idx,
                   outcome, lookups, resolved>>

\* POST /v1/chat, mode "estimate", or "auto" with names: await estimate(...)
ChatEndpointCalls ==
    /\ pc = "idle"
    /\ \E mode \in ChatModes, ns \in ApiNameLists, use_llm \in BOOLEAN,
          enable_llm \in BOOLEAN :
          /\ ChatBranch(mode, ns) = "estimate"
          /\ StartEstimate("chat_endpoint", ns)
          /\ pick' = Request("chat_endpoint", mode, ns, use_llm, enable_llm)
    /\ UNCHANGED <<settings, fuzz, response>>

\* POST /v1/chat, mode "chat" (names or not), or "auto" without names
ChatEndpointChatOnly ==
    /\ pc = "idle"
    /\ \E mode \in ChatModes, ns \in ApiNameLists, use_llm \in BOOLEAN,
          enable_llm \in BOOLEAN, llm_ok \in BOOLEAN :
          /\ ChatBranch(mode, ns) = "chat_only"
          /\ pick' = Request("chat_endpoint", mode, ns, use_llm, enable_llm)
          /\ caller' = "chat_endpoint"
          /\ names' = ns
          /\ LET called == enable_llm /\ use_llm
             IN  response' = [kind |-> "ChatResponse",
                              reply |-> IF ~called THEN "llm off"
                                        ELSE IF llm_ok THEN "chat reply"
                                        ELSE "ollama failed",
                              data |-> EmptyEstimateResponse("search not run"),
                              llm |-> IF called THEN "format_chat_only" ELSE "none"]
    /\ pc' = "done"
    /\ UNCHANGED <<settings, fuzz, normalized, exact_by_norm, found_items, not_found,
                   debug, seen_articles_per_input, global_seen_articles, idx,
                   outcome, lookups, resolved>>

\* POST /v1/chat after estimate returned: the data, then the reply
ChatEndpointResponds ==
    /\ pc = "returned"
    /\ caller = "chat_endpoint"
    /\ \E llm_ok \in BOOLEAN :
          LET called == pick.enable_llm /\ pick.want_llm
          IN  response' = [kind |-> "ChatResponse",
                           reply |-> IF called /\ llm_ok THEN "chat reply"
                                     ELSE "text fallback",
                           data |-> EstimateResponse(MatchedItems(outcome.found_items),
                                        outcome.not_found, outcome.total_by_cabinet,
                                        outcome.total_by_project, None, <<>>,
                                        outcome.debug),
                           llm |-> IF called THEN "format_chat_reply" ELSE "none"]
    /\ pc' = "done"
    /\ UNCHANGED <<settings, fuzz, caller, names, normalized, exact_by_norm,
                   found_items, not_found, debug, seen_articles_per_input,
                   global_seen_articles, idx, outcome, lookups, resolved, pick>>

\* POST /v1/chat when estimate raised, with the error left to propagate
ChatEndpointPropagates ==
    /\ pc = "raised"
    /\ caller = "chat_endpoint"
    /\ response' = [kind |-> "error", llm |-> "none"]
    /\ pc' = "done"
    /\ UNCHANGED <<settings, fuzz, caller, names, normalized, exact_by_norm,
                   found_items, not_found, debug, seen_articles_per_input,
                   global_seen_articles, idx, outcome, lookups, resolved, pick>>

\* POST /v1/chat when estimate raised: except Exception builds an empty answer
ChatEndpointRecovers ==
    /\ pc = "raised"
    /\ caller = "chat_endpoint"
    /\ response' = [kind |-> "ChatResponse", reply |-> "estimate failed",
                    data |-> EmptyEstimateResponse("search failed"),
                    llm |-> "none"]
    /\ pc' = "done"
    /\ UNCHANGED <<settings, fuzz, caller, names, normalized, exact_by_norm,
                   found_items, not_found, debug, seen_articles_per_input,
                   global_seen_articles, idx, outcome, lookups, resolved, pick>>

\* estimate called as a function, with any list, the empty one included
DirectCall ==
    /\ pc = "idle"
    /\ \E ns \in NameLists : StartEstimate("direct", ns)
    /\ UNCHANGED <<settings, fuzz, response, pick>>

\* the direct caller receives the tuple or the exception
DirectCallEnds ==
    /\ pc \in {"returned", "raised"}
    /\ caller = "direct"
    /\ pc' = "done"
    /\ UNCHANGED <<settings, fuzz, caller, names, normalized, exact_by_norm,
                   found_items, not_found, debug, seen_articles_per_input,
                   global_seen_articles, idx, outcome, response, lookups, resolved,
                   pick>>

\* the locals of a call before it starts
Idle ==
    /\ pc = "idle"
    /\ caller = None
    /\ names = <<>>
    /\ normalized = <<>>
    /\ exact_by_norm = <<>>
    /\ found_items = <<>>
    /\ not_found = <<>>
    /\ debug = <<>>
    /\ seen_articles_per_input = <<>>
    /\ global_seen_articles = {}
    /\ idx = 0
    /\ outcome = NoOutcome
    /\ response = NoResponse
    /\ lookups = <<>>
    /\ resolved = <<>>

\* the request is over; its locals are gone and the next request can come
Finish ==
    /\ pc = "done"
    /\ pc' = "idle"
    /\ caller' = None
    /\ names' = <<>>
    /\ normalized' = <<>>
    /\ exact_by_norm' = <<>>
    /\ found_items' = <<>>
    /\ not_found' = <<>>
    /\ debug' = <<>>
    /\ seen_articles_per_input' = <<>>
    /\ global_seen_articles' = {}
    /\ idx' = 0
    /\ outcome' = NoOutcome
    /\ response' = NoResponse
    /\ lookups' = <<>>
    /\ resolved' = <<>>
    /\ pick' = IF pick.kind = "request" THEN NoPick ELSE pick
    /\ UNCHANGED <<settings, fuzz>>

Init ==
    /\ settings \in SettingsSet
    /\ fuzz \in FuzzTables
    /\ Idle
    /\ pick = NoPick

\* the steps of one estimate call
EstimateStep ==
    \/ FetchExactReturns
    \/ FetchExactRaises
    \/ ResolveExact
    \/ CallFetchCandidates
    \/ FetchCandidatesReturns
    \/ FetchCandidatesRaises
    \/ Aggregate

\* the engine, called as a function
Next ==
    \/ DirectCall
    \/ EstimateStep
    \/ DirectCallEnds
    \/ Finish

Spec == Init /\ [][Next]_vars

\* the engine behind the two request handlers
NextApi ==
    \/ EstimateEndpointRejects
    \/ EstimateEndpointCalls
    \/ EstimateEndpointResponds
    \/ EstimateEndpointFails
    \/ ChatEndpointNoNames
    \/ ChatEndpointCalls
    \/ ChatEndpointChatOnly
    \/ ChatEndpointResponds
    \/ ChatEndpointRecovers
    \/ EstimateStep
    \/ Finish

SpecApi == Init /\ [][NextApi]_vars

-----------------------------------------------------------------------------
(* pick_best_matches on its own: one call with drawn arguments *)

\* largest max_results argument drawn
MaxResults == 2

\* base levels of the drawn rapidfuzz tables: far below, just below and at
\* the threshold once the bonuses are added
PickLevels == {0, 64, 69, 70}

PickFuzzTables ==
    { FuzzTable(lvl, syn) : lvl \in [ItemNames -> PickLevels],
                            syn \in {NameLevels(0, 0, 0), NameLevels(0, 75, 0)} }

InitPick ==
    /\ settings \in {st \in SettingsSet :
                        st.use_pg_trgm /\ st.max_results_per_input = 1}
    /\ fuzz \in PickFuzzTables
    /\ Idle
    /\ pick \in [kind : {"call"},
                 query_norm : OwnQueries,
                 candidates : DistinctSeqsUpTo(Items, MaxCandidates),
                 max_results : 0..MaxResults,
                 best : {<<>>},
                 done : {FALSE}]

\* best = pick_best_matches(query_norm, candidates, max_results)
PickBestMatches ==
    /\ pick.kind = "call"
    /\ ~pick.done
    /\ pick' = [pick EXCEPT
                   !.best = pick_best_matches(pick.query_norm, pick.candidates,
                                              pick.max_results),
                   !.done = TRUE]
    /\ UNCHANGED <<settings, fuzz, pc, caller, names, normalized, exact_by_norm,
                   found_items, not_found, debug, seen_articles_per_input,
                   global_seen_articles, idx, outcome, response, lookups, resolved>>

NextPick == PickBestMatches

SpecPick == InitPick /\ [][NextPick]_vars

-----------------------------------------------------------------------------
(* Properties *)

\* estimate is inside its for-loop, or has just left it
InLoop == pc \in {"loop", "fetch_candidates"}
LoopDone == pc = "loop" /\ idx > Len(names)

\* the positions already resolved
Processed == 1..Len(resolved)

\* the found entries of a list that carry the article a
EntriesFor(items, a) == {k \in 1..Len(items) : items[k].article = a}

RECURSIVE SumSeq(_, _)
SumSeq(items, k) ==
    IF k > Len(items) THEN 0 ELSE items[k].time_per_unit + SumSeq(items, k + 1)

RECURSIVE SumDict(_, _)
SumDict(d, keys) ==
    IF keys = {} THEN 0
    ELSE LET c == CHOOSE x \in keys : TRUE
         IN  d[c] + SumDict(d, keys \ {c})

\* C1: after any estimate call, whatever the input list and the lookup
\* results, no article appears in more than one entry of found_items - in the
\* list while it is built and in the returned tuple.
C1_NoArticleTwice ==
    /\ \A a, b \in 1..Len(found_items) :
          a # b => found_items[a].article # found_items[b].article
    /\ outcome # NoOutcome =>
          \A a, b \in 1..Len(outcome.found_items) :
             a # b => outcome.found_items[a].article # outcome.found_items[b].article

\* C1 witness: two inputs that alone resolve to one article have both been
\* processed, and the article is in found_items
C1_Witness ==
    \E i, j \in Processed :
        /\ i < j
        /\ resolved[i].alone # None
        /\ resolved[i].alone = resolved[j].alone
        /\ EntriesFor(found_items, resolved[i].alone) # {}

\* C2 as stated: when the inputs at positions i < j would each, taken alone,
\* resolve to the same article, the found entry for that article carries the
\* user_input of position i.
C2_EntryCarriesEarlierOfThePair ==
    \A i, j \in Processed :
        (i < j /\ resolved[i].alone # None /\ resolved[i].alone = resolved[j].alone)
        => \E e \in EntriesFor(found_items, resolved[i].alone) :
              found_items[e].user_input = names[i]

\* C2 amended: when the inputs at positions i < j would each, taken alone,
\* resolve to the same article, the article is claimed by a position k <= i
\* (position i itself unless an earlier input claimed it), the found entry for
\* the article carries the user_input of position k, and position j never
\* gets the article.
C2_EarlierInputHasFirstClaim ==
    \A i, j \in Processed :
        (i < j /\ resolved[i].alone # None /\ resolved[i].alone = resolved[j].alone)
        => LET a == resolved[i].alone
           IN  /\ resolved[j].got # a
               /\ \E k \in 1..i :
                     /\ resolved[k].got = a
                     /\ \A e \in EntriesFor(found_items, a) :
                           found_items[e].user_input = names[k]
                     /\ EntriesFor(found_items, a) # {}
               /\ (\A k \in 1..(i - 1) : resolved[k].got # a) => resolved[i].got = a

\* C2 witness: three processed inputs, the later two compete for an article
\* that the first one already claimed
C2_Witness ==
    \E i, j \in Processed :
        /\ 1 < i /\ i < j
        /\ resolved[i].alone # None
        /\ resolved[i].alone = resolved[j].alone
        /\ resolved[1].got = resolved[i].alone
        /\ names[1] # names[i]

\* C3 (Scenario A): two inputs normalize identically and both exactly match
\* one catalog record: estimate ends with exactly one found entry, for the
\* first input, the other input in not_found, and the record's time counted
\* once in the container total.
C3_ScenarioA ==
    ( /\ LoopDone
      /\ Len(names) = 2
      /\ names[1] # names[2]
      /\ normalized[1] = normalized[2]
      /\ Len(exact_get(1)) = 1
      /\ exact_get(1)[1].article # None )
    => /\ Len(found_items) = 1
       /\ found_items[1].user_input = names[1]
       /\ not_found = <<names[2]>>
       /\ total_by(found_items, "cabinet", 1, EmptyDict)
             = [c \in {exact_get(1)[1].cabinet_code} |->
                   exact_get(1)[1].assembly_time_minutes]

\* C4: every input position is accounted for exactly once, as the user_input
\* of a found entry or as an entry of not_found:
\* len(found_items) + len(not_found) = len(names).
C4_EveryInputAccounted ==
    pc = "returned" =>
        Len(outcome.found_items) + Len(outcome.not_found) = Len(names)

\* C5: for an input whose normalized form has at least one exact row the
\* fuzzy lookup is never called, whether an exact row was accepted or every
\* exact row's article was already claimed.
C5_NoFuzzyLookupAfterExact ==
    InLoop =>
        \A i \in 1..Len(names) :
            (normalized[i] \in DOMAIN exact_by_norm)
            => \A k \in 1..Len(lookups) :
                  lookups[k].at = i => lookups[k].fn = "fetch_exact_matches"

\* C5 witness: an input with exact rows, all of them claimed, has been processed
C5_Witness ==
    /\ InLoop
    /\ \E i \in Processed :
          /\ normalized[i] \in DOMAIN exact_by_norm
          /\ resolved[i].alone # None
          /\ resolved[i].got = None

\* C6: when the exact lookup or a fuzzy lookup raises, the estimate call ends
\* with that error: nothing is returned, no lookup is issued after the failed
\* one, and no lookup is issued twice.
C6_LookupFailureIsFatal ==
    /\ \A k \in 1..Len(lookups) :
          lookups[k].status = "raised"
          => /\ k = Len(lookups)
             /\ outcome = NoOutcome
             /\ pc \in {"raised", "done"}
    /\ \A a, b \in 1..Len(lookups) :
          a # b => <<lookups[a].fn, lookups[a].at>> # <<lookups[b].fn, lookups[b].at>>
    /\ pc = "raised" => lookups[Len(lookups)].status = "raised"

\* C6 witness: a fuzzy lookup failed after earlier inputs had been processed
C6_Witness ==
    /\ pc = "raised"
    /\ Len(lookups) >= 3
    /\ lookups[Len(lookups)].at = Len(names)
    /\ lookups[Len(lookups)].fn # "fetch_exact_matches"

\* C7: an estimation call with an empty input list is rejected before any
\* retrieval is attempted: no exact or fuzzy lookup is issued.
C7_EmptyListIssuesNoLookup ==
    (caller # None /\ names = <<>>) => lookups = <<>>

\* C8: for every outcome the values of total_by_cabinet and the values of
\* total_by_project both add up to the sum of time_per_unit over found_items.
C8_TotalsAgree ==
    outcome # NoOutcome =>
        LET t == SumSeq(outcome.found_items, 1)
        IN  /\ SumDict(outcome.total_by_cabinet, DOMAIN outcome.total_by_cabinet) = t
            /\ SumDict(outcome.total_by_project, DOMAIN outcome.total_by_project) = t

\* C8 witness: two found items in different cabinets of one project
C8_Witness ==
    /\ outcome # NoOutcome
    /\ Len(outcome.found_items) >= 2
    /\ Cardinality(DOMAIN outcome.total_by_cabinet) = 2
    /\ Cardinality(DOMAIN outcome.total_by_project) = 1

\* C9: the keys of total_by_cabinet are exactly the cabinet codes of
\* found_items, the keys of total_by_project exactly their project codes;
\* with no found item both totals are empty.
C9_KeysAreFoundCodes ==
    outcome # NoOutcome =>
        /\ DOMAIN outcome.total_by_cabinet
              = {outcome.found_items[k].cabinet : k \in 1..Len(outcome.found_items)}
        /\ DOMAIN outcome.total_by_project
              = {outcome.found_items[k].project : k \in 1..Len(outcome.found_items)}
        /\ outcome.found_items = <<>> =>
              /\ outcome.total_by_cabinet = EmptyDict
              /\ outcome.total_by_project = EmptyDict

\* C9 witness: one item found in cabinet C1 of project P1 while another input
\* stayed unmatched; the catalog's other cabinet and project are no keys
C9_Witness ==
    /\ outcome # NoOutcome
    /\ Len(outcome.found_items) = 1
    /\ outcome.not_found # <<>>
    /\ DOMAIN outcome.total_by_cabinet = {"C1"}
    /\ DOMAIN outcome.total_by_project = {"P1"}

\* the score rank_candidates gives a row: the best over the query variants
VariantScores(query_norm, row) ==
    {_calculate_similarity_score(v, name_norm_or_empty(row)) :
        v \in Range(_expand_query_with_synonyms(query_norm))}

RowScore(query_norm, row) ==
    CHOOSE m \in VariantScores(query_norm, row) \cup {0} :
        \A x \in VariantScores(query_norm, row) \cup {0} : m >= x

\* C10: pick_best_matches returns no candidate scoring below fuzzy_min_score
\* (one at fuzzy_min_score - 1 is dropped), keeps a candidate scoring exactly
\* fuzzy_min_score unless the result limit was reached by candidates ranked
\* before it, and returns the empty list exactly when no candidate reaches
\* the threshold.
C10_ThresholdIsInclusive ==
    (pick.kind = "call" /\ pick.done) =>
        LET cands == pick.candidates
            score(k) == RowScore(pick.query_norm, cands[k])
            passing == {k \in 1..Len(cands) : score(k) >= fuzzy_min_score}
            kept == {pick.best[j].row : j \in 1..Len(pick.best)}
        IN  /\ \A j \in 1..Len(pick.best) :
                  /\ pick.best[j].match_score >= fuzzy_min_score
                  /\ pick.best[j].match_score = RowScore(pick.query_norm, pick.best[j].row)
            /\ \A k \in 1..Len(cands) : score(k) = fuzzy_min_score - 1 => cands[k] \notin kept
            /\ \A k \in 1..Len(cands) :
                  (score(k) = fuzzy_min_score /\ cands[k] \notin kept)
                  => (pick.best # <<>> /\ Len(pick.best) >= pick.max_results)
            /\ passing = {} <=> pick.best = <<>>

\* C10 witness: a candidate at the threshold is returned while one a point
\* below it is not
C10_Witness ==
    /\ pick.kind = "call"
    /\ pick.done
    /\ \E j \in 1..Len(pick.best) : pick.best[j].match_score = fuzzy_min_score
    /\ \E k \in 1..Len(pick.candidates) :
          RowScore(pick.query_norm, pick.candidates[k]) = fuzzy_min_score - 1

-----------------------------------------------------------------------------
(* _calculate_similarity_score on its own: one call, any rapidfuzz answer *)

\* values a rapidfuzz metric may take: none, middling, close to and at the top
MetricLevels == {0, 50, 96, 100}

MetricTuples == [1..5 -> MetricLevels]

\* the candidate names scored: the catalog's names and the missing name
ScoredNames == ItemNames \cup {<<>>}

InitScore ==
    /\ settings \in {st \in SettingsSet :
                        st.use_pg_trgm /\ st.max_results_per_input = 1}
    /\ Idle
    /\ \E q \in QueryVariants, n \in ScoredNames, m \in MetricTuples :
          /\ fuzz = [p \in {<<q, n>>} |-> m]
          /\ pick = [kind |-> "score", query_norm |-> q, name_norm |-> n,
                     score |-> 0, done |-> FALSE]

\* score = _calculate_similarity_score(query_norm, name_norm)
CalculateSimilarityScore ==
    /\ pick.kind = "score"
    /\ ~pick.done
    /\ pick' = [pick EXCEPT
                   !.score = _calculate_similarity_score(pick.query_norm,
                                                         pick.name_norm),
                   !.done = TRUE]
    /\ UNCHANGED <<settings, fuzz, pc, caller, names, normalized, exact_by_norm,
                   found_items, not_found, debug, seen_articles_per_input,
                   global_seen_articles, idx, outcome, response, lookups, resolved>>

NextScore == CalculateSimilarityScore

SpecScore == InitScore /\ [][NextScore]_vars

\* the largest of the five metrics answered for the call under study
BaseOfCall ==
    LET m == fuzz_metrics(pick.query_norm, pick.name_norm)
    IN  CHOOSE b \in Range(m) : \A x \in Range(m) : b >= x

\* the two bonuses of the call under study, the prefix bonus capped at 10
BonusesOfCall ==
    LET query_tokens == Range(split(pick.query_norm))
        name_tokens == Range(split(pick.name_norm))
    IN  coverage_bonus(query_tokens, name_tokens)
        + Min(prefix_bonus(query_tokens, name_tokens), 10)

\* C11: for every query variant, candidate name and metric values in 0..100,
\* _calculate_similarity_score returns an integer in [0, 100] that equals
\* min(100, base + coverage_bonus + prefix_bonus): the bonuses are added
\* before the cap, so the score is 100 exactly when the sum reaches 100.
C11_ScoreCapped ==
    (pick.kind = "score" /\ pick.done) =>
        /\ pick.score \in 0..100
        /\ pick.score >= BaseOfCall
        /\ (BaseOfCall + BonusesOfCall >= 100) => pick.score = 100
        /\ (BaseOfCall + BonusesOfCall < 100) => pick.score = BaseOfCall + BonusesOfCall

\* C11 witness: a base below 100 is lifted over 100 by a bonus and capped
C11_Witness ==
    /\ pick.kind = "score"
    /\ pick.done
    /\ BaseOfCall < 100
    /\ BaseOfCall + BonusesOfCall > 100
    /\ pick.score = 100

-----------------------------------------------------------------------------
(* normalize_text on its own: applied to a drawn string, then to its result *)

\* longest string drawn
MaxTextLen == 4

\* letters of both cases, the letter io in both cases, a digit, the
\* underscore, punctuation and two kinds of whitespace
TextAlphabet == {"K", "k", "YO", "yo", "e", "1", "_", "-", " ", "\t"}

InitNormalize ==
    /\ settings \in {st \in SettingsSet :
                        st.use_pg_trgm /\ st.max_results_per_input = 1}
    /\ fuzz \in FuzzTables
    /\ Idle
    /\ pick \in [kind : {"normalize"},
                 text : SeqsUpTo(TextAlphabet, MaxTextLen),
                 once : {<<>>},
                 twice : {<<>>},
                 applied : {0}]

\* once = normalize_text(text)
NormalizeText ==
    /\ pick.kind = "normalize"
    /\ pick.applied = 0
    /\ pick' = [pick EXCEPT !.once = normalize_text(pick.text), !.applied = 1]
    /\ UNCHANGED <<settings, fuzz, pc, caller, names, normalized, exact_by_norm,
                   found_items, not_found, debug, seen_articles_per_input,
                   global_seen_articles, idx, outcome, response, lookups, resolved>>

\* twice = normalize_text(once)
NormalizeTextAgain ==
    /\ pick.kind = "normalize"
    /\ pick.applied = 1
    /\ pick' = [pick EXCEPT !.twice = normalize_text(pick.once), !.applied = 2]
    /\ UNCHANGED <<settings, fuzz, pc, caller, names, normalized, exact_by_norm,
                   found_items, not_found, debug, seen_articles_per_input,
                   global_seen_articles, idx, outcome, response, lookups, resolved>>

NextNormalize == NormalizeText \/ NormalizeTextAgain

SpecNormalize == InitNormalize /\ [][NextNormalize]_vars

\* C12: normalize_text is idempotent: for every string over letters of both
\* cases, the letter io, digits, the underscore, punctuation and whitespace,
\* normalizing the normalized string gives the normalized string again.
C12_NormalizeIdempotent ==
    (pick.kind = "normalize" /\ pick.applied = 2) => pick.twice = pick.once

\* C12 witness: a string with a capital io, punctuation and whitespace, which
\* the first application changed, has been normalized twice
C12_Witness ==
    /\ pick.kind = "normalize"
    /\ pick.applied = 2
    /\ "YO" \in Range(pick.text)
    /\ "-" \in Range(pick.text)
    /\ Range(pick.text) \cap SpaceChars # {}
    /\ pick.once # pick.text
    /\ Len(pick.once) >= 2

-----------------------------------------------------------------------------
(* _expand_query_with_synonyms on its own: one call with a drawn query *)

\* most tokens of a drawn query
MaxQueryTokens == 3

\* tokens of the drawn queries: two keys of SYNONYMS_DICT, for each a synonym
\* that contains the key, and a token the dictionary does not know
ExpandTokens ==
    { <<"k", "o", "t">>, <<"k", "o", "t", "i", "k">>,
      <<"sch", "i", "t">>, SCHITOK, <<"1">> }

\* " ".join(tokens)
RECURSIVE join(_)
join(tokens) ==
    IF tokens = <<>> THEN <<>>
    ELSE IF Len(tokens) = 1 THEN tokens[1]
    ELSE tokens[1] \o <<" ">> \o join(Tail(tokens))

\* normalized queries: tokens separated by single spaces
ExpandQueries == {join(ts) : ts \in SeqsUpTo(ExpandTokens, MaxQueryTokens)}

InitExpand ==
    /\ settings \in {st \in SettingsSet :
                        st.use_pg_trgm /\ st.max_results_per_input = 1}
    /\ fuzz \in FuzzTables
    /\ Idle
    /\ pick \in [kind : {"expand"},
                 query_norm : ExpandQueries,
                 queries : {<<>>},
                 done : {FALSE}]

\* queries = _expand_query_with_synonyms(query_norm)
ExpandQueryWithSynonyms ==
    /\ pick.kind = "expand"
    /\ ~pick.done
    /\ pick' = [pick EXCEPT
                   !.queries = _expand_query_with_synonyms(pick.query_norm),
                   !.done = TRUE]
    /\ UNCHANGED <<settings, fuzz, pc, caller, names, normalized, exact_by_norm,
                   found_items, not_found, debug, seen_articles_per_input,
                   global_seen_articles, idx, outcome, response, lookups, resolved>>

NextExpand == ExpandQueryWithSynonyms

SpecExpand == InitExpand /\ [][NextExpand]_vars

ExpandDone == pick.kind = "expand" /\ pick.done

\* C13 (Scenario B): for the query "щиток", with "щит" mapped to
\* ["щиток", "щитовая"], the variants used for scoring hold a
\* synonym-expanded variant other than the input itself, through which a
\* record named with the token "щит" is scored.
C13_ScenarioB ==
    (ExpandDone /\ pick.query_norm = SCHITOK) =>
        \E k \in 1..Len(pick.queries) :
            /\ pick.queries[k] # pick.query_norm
            /\ <<"sch", "i", "t">> \in Range(split(pick.queries[k]))

\* v is the query with exactly the token at position t replaced by a synonym
\* of that token
OneTokenReplaced(query_norm, v) ==
    LET query_tokens == split(query_norm)
    IN  \E t \in 1..Len(query_tokens) :
            \E syn \in Range(SYNONYMS_DICT(query_tokens[t])) :
                v = join([query_tokens EXCEPT ![t] = syn])

\* C14: every variant of _expand_query_with_synonyms other than the input is
\* the input with exactly one token occurrence replaced by one synonym of that
\* token; other occurrences of the token and tokens that contain the key as a
\* substring are unchanged.
C14_OneSubstitutionPerVariant ==
    ExpandDone =>
        \A k \in 1..Len(pick.queries) :
            pick.queries[k] # pick.query_norm
            => OneTokenReplaced(pick.query_norm, pick.queries[k])

\* C15: the result of _expand_query_with_synonyms contains the query itself
\* and contains no string twice.
C15_VariantsHoldQueryOnce ==
    ExpandDone =>
        /\ pick.query_norm \in Range(pick.queries)
        /\ \A a, b \in 1..Len(pick.queries) :
              a # b => pick.queries[a] # pick.queries[b]

\* C15 witness: a key occurs twice in the query, so the second pass over it
\* produces strings the list already holds
C15_Witness ==
    /\ ExpandDone
    /\ \E a, b \in 1..Len(split(pick.query_norm)) :
          /\ a # b
          /\ split(pick.query_norm)[a] = split(pick.query_norm)[b]
          /\ split(pick.query_norm)[a] \in SynonymKeys
    /\ Len(pick.queries) >= 3

-----------------------------------------------------------------------------
(* rank_candidates on its own: one call with drawn arguments *)

\* longest candidate list ranked
MaxRanked == 3

InitRank ==
    /\ settings \in {st \in SettingsSet :
                        st.use_pg_trgm /\ st.max_results_per_input = 1}
    /\ fuzz \in PickFuzzTables
    /\ Idle
    /\ pick \in [kind : {"rank"},
                 query_norm : OwnQueries,
                 candidates : DistinctSeqsUpTo(Items, MaxRanked),
                 ranked : {<<>>},
                 done : {FALSE}]

\* ranked = rank_candidates(query_norm, candidates)
RankCandidates ==
    /\ pick.kind = "rank"
    /\ ~pick.done
    /\ pick' = [pick EXCEPT
                   !.ranked = rank_candidates(pick.query_norm, pick.candidates),
                   !.done = TRUE]
    /\ UNCHANGED <<settings, fuzz, pc, caller, names, normalized, exact_by_norm,
                   found_items, not_found, debug, seen_articles_per_input,
                   global_seen_articles, idx, outcome, response, lookups, resolved>>

NextRank == RankCandidates

SpecRank == InitRank /\ [][NextRank]_vars

\* the position of a row in a list that holds it once
PositionIn(rows, row) == CHOOSE k \in 1..Len(rows) : rows[k] = row

\* C16: rank_candidates returns every candidate exactly once, each with its
\* score, in non-increasing score order, and candidates with equal scores
\* keep the relative order they had in the input list.
C16_RankingIsStable ==
    (pick.kind = "rank" /\ pick.done) =>
        LET cands == pick.candidates
            ranked == pick.ranked
        IN  /\ Len(ranked) = Len(cands)
            /\ \A k \in 1..Len(cands) :
                  Cardinality({a \in 1..Len(ranked) : ranked[a][2] = cands[k]}) = 1
            /\ \A a \in 1..Len(ranked) :
                  ranked[a][1] = RowScore(pick.query_norm, ranked[a][2])
            /\ \A a, b \in 1..Len(ranked) :
                  a < b =>
                     /\ ranked[a][1] >= ranked[b][1]
                     /\ ranked[a][1] = ranked[b][1]
                        => PositionIn(cands, ranked[a][2]) < PositionIn(cands, ranked[b][2])

\* C16 witness: three candidates, the first of the input ranked last, the
\* other two tied ahead of it
C16_Witness ==
    /\ pick.kind = "rank"
    /\ pick.done
    /\ Len(pick.ranked) = 3
    /\ pick.ranked[3][2] = pick.candidates[1]
    /\ pick.ranked[1][1] = pick.ranked[2][1]
    /\ pick.ranked[2][1] > pick.ranked[3][1]

-----------------------------------------------------------------------------
(* The result limit of pick_best_matches *)

\* the entries of a ranking that clear the threshold, in ranking order
RECURSIVE ClearingPrefix(_, _)
ClearingPrefix(ranked, k) ==
    IF k > Len(ranked) \/ ranked[k][1] < fuzzy_min_score THEN <<>>
    ELSE <<[row |-> ranked[k][2], match_score |-> ranked[k][1]]>>
         \o ClearingPrefix(ranked, k + 1)

\* C17: for every max_results >= 0, max_results = 0 included,
\* pick_best_matches returns at most max_results candidates, and they are the
\* first max_results entries of the ranking that clear the threshold.
C17_AtMostMaxResults ==
    (pick.kind = "call" /\ pick.done) =>
        LET clearing == ClearingPrefix(rank_candidates(pick.query_norm,
                                                       pick.candidates), 1)
        IN  /\ Len(pick.best) <= pick.max_results
            /\ pick.best = SubSeq(clearing, 1, Min(pick.max_results, Len(clearing)))

-----------------------------------------------------------------------------
(* The order of the rows a fuzzy lookup returns *)

\* what the input at idx contributes to the outcome when the awaited fuzzy
\* lookup returns candidates: the found entries it adds (none or one) and
\* whether it goes to not_found
fuzzy_outcome(candidates) ==
    LET acc == fuzzy_accept(candidates)
    IN  [found |-> IF acc.k = 0 THEN <<>>
                   ELSE <<_row_to_match(names[idx], acc.rows[acc.k],
                                        acc.best[acc.k].match_score)>>,
         missing |-> acc.best = <<>>]

\* no two of the rows reach the threshold with the same score
NoClearingTies(candidates) ==
    \A a, b \in 1..Len(candidates) :
        LET sa == RowScore(normalized[idx], candidates[a])
            sb == RowScore(normalized[idx], candidates[b])
        IN  (a # b /\ sa >= fuzzy_min_score /\ sb >= fuzzy_min_score) => sa # sb

\* C18 as stated: the outcome of estimate does not depend on the order in
\* which the fuzzy lookup returns its rows: the same rows in any permutation
\* give the same found entry and the same not_found entry, hence the same
\* found_items, not_found and totals.
C18_RowOrderIrrelevant ==
    pc = "fetch_candidates" =>
        \A c1, c2 \in fetch_candidates(idx) :
            Range(c1) = Range(c2) => fuzzy_outcome(c1) = fuzzy_outcome(c2)

\* C18 amended: the outcome does not depend on the order of the returned
\* rows as long as no two returned rows reach fuzzy_min_score with the same
\* score; rows with equal scores are ranked in the order returned.
C18_RowOrderIrrelevantWithoutTies ==
    pc = "fetch_candidates" =>
        \A c1, c2 \in fetch_candidates(idx) :
            (Range(c1) = Range(c2) /\ NoClearingTies(c1))
            => fuzzy_outcome(c1) = fuzzy_outcome(c2)

\* C18 witness: a fuzzy lookup is awaited that may return two rows, both
\* reaching the threshold with different scores, in either order, and one of
\* them is accepted
C18_Witness ==
    /\ pc = "fetch_candidates"
    /\ \E c1, c2 \in fetch_candidates(idx) :
          /\ Len(c1) = 2
          /\ c2 = <<c1[2], c1[1]>>
          /\ NoClearingTies(c1)
          /\ RowScore(normalized[idx], c1[1]) >= fuzzy_min_score
          /\ RowScore(normalized[idx], c1[2]) >= fuzzy_min_score
          /\ fuzzy_outcome(c1).found # <<>>
          /\ fuzzy_outcome(c2).found # <<>>

-----------------------------------------------------------------------------
(* The order of the two result lists *)

\* a can be obtained from b by deleting elements
RECURSIVE IsSubsequence(_, _)
IsSubsequence(a, b) ==
    IF a = <<>> THEN TRUE
    ELSE IF b = <<>> THEN FALSE
    ELSE IF Head(a) = Head(b) THEN IsSubsequence(Tail(a), Tail(b))
    ELSE IsSubsequence(a, Tail(b))

UserInputs(items) == [k \in 1..Len(items) |-> items[k].user_input]

\* C19: the user_input sequence of found_items is a subsequence of the input
\* list in input order, and so is not_found - while the lists are built and
\* in the returned outcome.
C19_ListsKeepInputOrder ==
    /\ InLoop =>
          /\ IsSubsequence(UserInputs(found_items), names)
          /\ IsSubsequence(not_found, names)
    /\ outcome # NoOutcome =>
          /\ IsSubsequence(UserInputs(outcome.found_items), names)
          /\ IsSubsequence(outcome.not_found, names)

\* C19 witness: three different inputs, the second not found, the first and
\* the third found
C19_Witness ==
    /\ outcome # NoOutcome
    /\ Len(names) = 3
    /\ names[1] # names[3]
    /\ UserInputs(outcome.found_items) = <<names[1], names[3]>>
    /\ outcome.not_found = <<names[2]>>

-----------------------------------------------------------------------------
(* Two estimate calls on one event loop.  The variables hold the frame of   *)
(* the call that runs; pick holds the frame of the other call, which is not *)
(* started, suspended at an await, or finished.                             *)

\* longest names list of the two calls
MaxConcNames == 2

\* the inputs of the two calls: one with exact rows, one for the fuzzy path
ConcNames == {KOT_1, SCHITOK}

ConcNameLists == SeqsUpTo(ConcNames, MaxConcNames)

\* the frame of the running call
RunningFrame ==
    [kind |-> "frame", pc |-> pc, caller |-> caller, names |-> names,
     normalized |-> normalized, exact_by_norm |-> exact_by_norm,
     found_items |-> found_items, not_found |-> not_found, debug |-> debug,
     seen_articles_per_input |-> seen_articles_per_input,
     global_seen_articles |-> global_seen_articles, idx |-> idx,
     outcome |-> outcome, response |-> response, lookups |-> lookups,
     resolved |-> resolved]

\* the frame of a call that has not started
IdleFrame ==
    [kind |-> "frame", pc |-> "idle", caller |-> None, names |-> <<>>,
     normalized |-> <<>>, exact_by_norm |-> <<>>, found_items |-> <<>>,
     not_found |-> <<>>, debug |-> <<>>, seen_articles_per_input |-> <<>>,
     global_seen_articles |-> {}, idx |-> 0, outcome |-> NoOutcome,
     response |-> NoResponse, lookups |-> <<>>, resolved |-> <<>>]

\* where the event loop can take the running call off: before it starts,
\* at its two awaits, after it ended
AwaitPoints == {"idle", "fetch_exact", "fetch_candidates", "done"}

\* SwitchCall with the claimed set kept in one process-wide variable: it is
\* not part of a frame and stays where it is
SwitchCallSharingClaims ==
    /\ pick.kind = "frame"
    /\ pc \in AwaitPoints
    /\ pick' = RunningFrame
    /\ pc' = pick.pc
    /\ caller' = pick.caller
    /\ names' = pick.names
    /\ normalized' = pick.normalized
    /\ exact_by_norm' = pick.exact_by_norm
    /\ found_items' = pick.found_items
    /\ not_found' = pick.not_found
    /\ debug' = pick.debug
    /\ seen_articles_per_input' = pick.seen_articles_per_input
    /\ idx' = pick.idx
    /\ outcome' = pick.outcome
    /\ response' = pick.response
    /\ lookups' = pick.lookups
    /\ resolved' = pick.resolved
    /\ UNCHANGED <<settings, fuzz, global_seen_articles>>

\* the event loop suspends the running call and resumes the other one: every
\* local of estimate belongs to its call
SwitchCall ==
    /\ pick.kind = "frame"
    /\ pc \in AwaitPoints
    /\ pick' = RunningFrame
    /\ pc' = pick.pc
    /\ caller' = pick.caller
    /\ names' = pick.names
    /\ normalized' = pick.normalized
    /\ exact_by_norm' = pick.exact_by_norm
    /\ found_items' = pick.found_items
    /\ not_found' = pick.not_found
    /\ debug' = pick.debug
    /\ seen_articles_per_input' = pick.seen_articles_per_input
    /\ global_seen_articles' = pick.global_seen_articles
    /\ idx' = pick.idx
    /\ outcome' = pick.outcome
    /\ response' = pick.response
    /\ lookups' = pick.lookups
    /\ resolved' = pick.resolved
    /\ UNCHANGED <<settings, fuzz>>

\* one of the two calls is started
ConcurrentCall ==
    /\ pc = "idle"
    /\ \E ns \in ConcNameLists : StartEstimate("direct", ns)
    /\ UNCHANGED <<settings, fuzz, response, pick>>

InitTwo ==
    /\ settings \in {st \in SettingsSet :
                        st.use_pg_trgm /\ st.max_results_per_input = 1}
    /\ fuzz \in FuzzTables
    /\ Idle
    /\ pick = IdleFrame

NextTwo ==
    \/ ConcurrentCall
    \/ EstimateStep
    \/ DirectCallEnds
    \/ Finish
    \/ SwitchCall

SpecTwo == InitTwo /\ [][NextTwo]_vars

\* the claimed set of a frame holds the articles of the frame's own found
\* entries and nothing else
ClaimsAreOwn(f) ==
    f.global_seen_articles
        = {f.found_items[k].article : k \in 1..Len(f.found_items)}

\* an input of the frame got the article it resolves to alone unless an
\* earlier input of the same frame got it
GetsWhatOwnCallLeft(f) ==
    \A i \in 1..Len(f.resolved) :
        (/\ f.resolved[i].alone # None
         /\ \A k \in 1..(i - 1) : f.resolved[k].got # f.resolved[i].alone)
        => f.resolved[i].got = f.resolved[i].alone

\* C20: the claimed-identifier set is scoped to one estimate call: whether
\* two calls run one after the other or interleave at their awaits, each
\* call's claimed set holds only the articles of its own found entries, and
\* each input gets the article it resolves to alone unless an earlier input of
\* its own call got it - what the other call claimed changes nothing, so each
\* call's outcome is the one it produces alone.
C20_ClaimsAreCallScoped ==
    pick.kind = "frame" =>
        /\ ClaimsAreOwn(RunningFrame)
        /\ ClaimsAreOwn(pick)
        /\ GetsWhatOwnCallLeft(RunningFrame)
        /\ GetsWhatOwnCallLeft(pick)

\* C20 witness: one call is suspended at a fuzzy lookup with an article
\* claimed, and the other call has matched the same article meanwhile
C20_Witness ==
    /\ pick.kind = "frame"
    /\ pick.pc = "fetch_candidates"
    /\ pc = "loop"
    /\ \E a \in pick.global_seen_articles :
          \E k \in 1..Len(found_items) : found_items[k].article = a

-----------------------------------------------------------------------------
(* Inputs that normalize to the empty string *)

\* C21: an input whose normalized form is the empty string never produces a
\* found entry: once processed it is reported in not_found.
C21_EmptyNormalizedIsNotFound ==
    InLoop =>
        \A i \in Processed :
            normalized[i] = <<>> =>
                /\ \A k \in 1..Len(found_items) : found_items[k].user_input # names[i]
                /\ names[i] \in Range(not_found)

-----------------------------------------------------------------------------
(* The score of a found entry *)

\* the found entry of the input at position i (an article is found once)
EntryOf(i) ==
    found_items[CHOOSE k \in 1..Len(found_items) :
                    found_items[k].article = resolved[i].got]

\* the catalog row a found entry was made from
RowOf(entry) == CHOOSE r \in Items : r.article = entry.article

\* C22: a found entry accepted through the exact path has match_score 100; a
\* found entry accepted through the fuzzy path has the score the ranker
\* computed for its candidate, which lies in [fuzzy_min_score, 100].
C22_ScoreOfFoundEntry ==
    InLoop =>
        \A i \in Processed :
            resolved[i].got # None =>
                /\ EntryOf(i).user_input = names[i]
                /\ debug[i].exact > 0 => EntryOf(i).match_score = 100
                /\ debug[i].exact = 0 =>
                      /\ EntryOf(i).match_score
                            = RowScore(normalized[i], RowOf(EntryOf(i)))
                      /\ EntryOf(i).match_score \in fuzzy_min_score..100

\* C22 witness: one input accepted on the exact path and one on the fuzzy
\* path with a score below 100
C22_Witness ==
    /\ InLoop
    /\ \E i, j \in Processed :
          /\ resolved[i].got # None
          /\ resolved[j].got # None
          /\ debug[i].exact > 0
          /\ debug[j].exact = 0
          /\ EntryOf(j).match_score < 100

-----------------------------------------------------------------------------
(* The candidate the fuzzy path accepts *)

\* the first max_results_per_input entries of the ranking of the returned
\* candidates that clear the threshold
TopClearing(candidates) ==
    LET clearing == ClearingPrefix(rank_candidates(normalized[idx], candidates), 1)
    IN  SubSeq(clearing, 1, Min(settings.max_results_per_input, Len(clearing)))

\* the positions of a list of scored candidates whose article is set and not
\* yet claimed
Eligible(top) ==
    {j \in 1..Len(top) : /\ top[j].row.article # None
                         /\ top[j].row.article \notin global_seen_articles}

\* C23: on the fuzzy path an input yields at most one found entry, made from
\* the first candidate in rank order, among the top max_results_per_input
\* clearing candidates, whose article is not yet claimed; a candidate ranked
\* beyond max_results_per_input is never accepted.
C23_FirstUnclaimedOfTop ==
    /\ [](pc = "fetch_candidates" =>
            \A candidates \in fetch_candidates(idx) :
                LET acc == fuzzy_accept(candidates)
                    top == TopClearing(candidates)
                IN  IF Eligible(top) = {} THEN acc.k = 0
                    ELSE /\ acc.k = CHOOSE j \in Eligible(top) :
                                        \A h \in Eligible(top) : j <= h
                         /\ acc.rows[acc.k] = top[acc.k].row)
    /\ [][pc = "fetch_candidates" => Len(found_items') <= Len(found_items) + 1]_vars

-----------------------------------------------------------------------------
(* The bonuses of _calculate_similarity_score: one call on drawn token lists *)

\* most tokens in a drawn query and in a drawn candidate name
MaxBonusTokens == 10

\* the k-th token of the vocabulary: a word, two words it is a prefix of, a
\* two-letter prefix of it, then unrelated one-character tokens
BonusToken(k) ==
    CASE k = 1 -> <<"k", "o", "t">>
      [] k = 2 -> <<"k", "o", "t", "i", "k">>
      [] k = 3 -> <<"k", "o">>
      [] k = 4 -> <<"k", "o", "t", "y">>
      [] OTHER -> <<ToString(k)>>

\* the tokens numbered in a set, by ascending number
RECURSIVE BonusTokenList(_)
BonusTokenList(S) ==
    IF S = {} THEN <<>>
    ELSE LET k == CHOOSE x \in S : \A y \in S : x <= y
         IN  <<BonusToken(k)>> \o BonusTokenList(S \ {k})

\* rapidfuzz answers for the scored pair: far from and near the threshold
BonusBaseLevels == {0, 55}

InitBonus ==
    /\ settings \in {st \in SettingsSet :
                        st.use_pg_trgm /\ st.max_results_per_input = 1}
    /\ Idle
    /\ \E n \in 0..MaxBonusTokens, repeat \in BOOLEAN,
          S \in SUBSET (1..MaxBonusTokens), b \in BonusBaseLevels :
          LET q == BonusTokenList(1..n)
              query_norm == join(IF repeat /\ n > 0 THEN Append(q, q[1]) ELSE q)
              name_norm == join(BonusTokenList(S))
          IN  /\ fuzz = [p \in {<<query_norm, name_norm>>} |-> <<b, b, b, b, b>>]
              /\ pick = [kind |-> "bonus",
                         query_norm |-> query_norm,
                         name_norm |-> name_norm,
                         query_drawn |-> {BonusToken(k) : k \in 1..n},
                         name_drawn |-> {BonusToken(k) : k \in S},
                         coverage_bonus |-> 0,
                         prefix_bonus |-> 0,
                         score |-> 0,
                         done |-> FALSE]

\* score = _calculate_similarity_score(query_norm, name_norm), with the values
\* its locals coverage_bonus and prefix_bonus hold at the return
CalculateBonuses ==
    /\ pick.kind = "bonus"
    /\ ~pick.done
    /\ LET query_tokens == Range(split(pick.query_norm))
           name_tokens == Range(split(pick.name_norm))
       IN  pick' = [pick EXCEPT
                       !.coverage_bonus = coverage_bonus(query_tokens, name_tokens),
                       !.prefix_bonus = prefix_bonus(query_tokens, name_tokens),
                       !.score = _calculate_similarity_score(pick.query_norm,
                                                             pick.name_norm),
                       !.done = TRUE]
    /\ UNCHANGED <<settings, fuzz, pc, caller, names, normalized, exact_by_norm,
                   found_items, not_found, debug, seen_articles_per_input,
                   global_seen_articles, idx, outcome, response, lookups, resolved>>

NextBonus == CalculateBonuses

SpecBonus == InitBonus /\ [][NextBonus]_vars

BonusDone == pick.kind = "bonus" /\ pick.done

\* C24: the coverage bonus is 0 when fewer than 80% of the distinct query
\* tokens occur in the candidate's token set, or when either token set is
\* empty; otherwise it is floor(10 * |q & c| / |q|), a value in {8, 9, 10}.
C24_CoverageBonus ==
    BonusDone =>
        LET q == pick.query_drawn
            c == pick.name_drawn
            covered == Cardinality(q \cap c)
        IN  IF q = {} \/ c = {} \/ 10 * covered < 8 * Cardinality(q)
            THEN pick.coverage_bonus = 0
            ELSE /\ pick.coverage_bonus \in {8, 9, 10}
                 /\ pick.coverage_bonus * Cardinality(q) <= 10 * covered
                 /\ (pick.coverage_bonus + 1) * Cardinality(q) > 10 * covered

\* C24 witness: nine of ten distinct query tokens are covered, the query
\* repeating one of them, and the bonus is 9
C24_Witness ==
    /\ BonusDone
    /\ Cardinality(pick.query_drawn) = 10
    /\ Len(split(pick.query_norm)) = 11
    /\ Cardinality(pick.query_drawn \cap pick.name_drawn) = 9
    /\ pick.coverage_bonus = 9

\* the query tokens that qualify for the prefix bonus
QualifyingQueryTokens ==
    {q \in pick.query_drawn :
        \E n \in pick.name_drawn :
            \/ Len(q) >= 3 /\ IsPrefix(q, n)
            \/ Len(n) >= 3 /\ IsPrefix(n, q)}

\* C25: the prefix bonus adds 5 for every query token of length >= 3 that is
\* a prefix of a candidate token (or that a candidate token of length >= 3 is
\* a prefix of), the sum applied to the score never exceeds 10, and a single
\* qualifying query token contributes 5.
C25_PrefixBonusPerQueryToken ==
    BonusDone =>
        pick.score = Min(100, BaseOfCall + pick.coverage_bonus
                              + Min(10, 5 * Cardinality(QualifyingQueryTokens)))

-----------------------------------------------------------------------------
(* The request handlers *)

\* the entry a MatchedItem was built from: the fields estimate sets
EntryOfMatchedItem(item) ==
    [user_input |-> item.user_input,
     matched_name |-> item.matched_name,
     match_score |-> item.match_score,
     article |-> item.article,
     cabinet |-> item.cabinet,
     project |-> item.project,
     nomenclature_type |-> item.nomenclature_type,
     stage |-> item.stage,
     time_per_unit |-> item.time_per_unit]

\* the data of a response carry no result
DataIsEmpty(data) ==
    /\ data.found_items = <<>>
    /\ data.not_found_items = <<>>
    /\ data.total_time_by_cabinet = EmptyDict
    /\ data.total_time_by_project = EmptyDict

\* the estimate calls the request has made: each issues one exact lookup
EstimateCalls ==
    Cardinality({k \in 1..Len(lookups) : lookups[k].fn = "fetch_exact_matches"})

\* C26: in POST /v1/estimate, once estimate has returned, the response is
\* returned whether format_report succeeds, raises or is disabled; its
\* found_items, not_found_items and totals are those estimate returned; when
\* format_report raises or the LLM is disabled, report is null and there is
\* exactly one warning.
C26_ReportLeavesEstimate ==
    (pc = "done" /\ caller = "estimate_endpoint" /\ outcome.kind = "outcome") =>
        /\ response.kind = "EstimateResponse"
        /\ [k \in 1..Len(response.data.found_items) |->
                EntryOfMatchedItem(response.data.found_items[k])]
              = outcome.found_items
        /\ response.data.not_found_items = outcome.not_found
        /\ response.data.total_time_by_cabinet = outcome.total_by_cabinet
        /\ response.data.total_time_by_project = outcome.total_by_project
        /\ response.llm_result \in {"raised", "disabled"} =>
              /\ response.data.report = None
              /\ Len(response.data.warnings) = 1

\* C26 witness: format_report raised after an estimate with a found and a
\* missing input
C26_Witness ==
    /\ pc = "done"
    /\ caller = "estimate_endpoint"
    /\ outcome.kind = "outcome"
    /\ outcome.found_items # <<>>
    /\ outcome.not_found # <<>>
    /\ response.kind = "EstimateResponse"
    /\ response.llm_result = "raised"

\* C27: when estimate raises during POST /v1/chat, the endpoint returns a
\* ChatResponse whose data has empty found_items, not_found_items and totals
\* and one warning, and the text-generation service is not called.
C27_ChatRecoversFromEstimateError ==
    (/\ pc = "done"
     /\ caller = "chat_endpoint"
     /\ lookups # <<>>
     /\ lookups[Len(lookups)].status = "raised") =>
        /\ response.kind = "ChatResponse"
        /\ DataIsEmpty(response.data)
        /\ Len(response.data.warnings) = 1
        /\ response.llm = "none"

\* C27 witness: a fuzzy lookup raised in a chat request that asked for the LLM
\* with the LLM enabled
C27_Witness ==
    /\ pc = "done"
    /\ caller = "chat_endpoint"
    /\ Len(lookups) >= 2
    /\ lookups[Len(lookups)].status = "raised"
    /\ pick.want_llm
    /\ pick.enable_llm
    /\ response.kind = "ChatResponse"

\* C30: POST /v1/chat invokes estimate exactly once when mode is 'estimate'
\* or 'auto' and names is non-empty, and never otherwise: in mode 'chat' (even
\* with names), in 'auto' without names and in 'estimate' without names no
\* lookup is issued and the returned data has empty found_items,
\* not_found_items and totals plus a warning.
C30_ChatLooksUpOnlyInSearchModes ==
    (caller = "chat_endpoint" /\ pc # "idle") =>
        IF pick.mode \in {"estimate", "auto"} /\ pick.names # <<>>
        THEN EstimateCalls = 1
        ELSE /\ lookups = <<>>
             /\ pc = "done"
             /\ response.kind = "ChatResponse"
             /\ DataIsEmpty(response.data)
             /\ Len(response.data.warnings) = 1

\* C30 witness: a request in mode 'chat' that carries names is answered
\* without a lookup
C30_Witness ==
    /\ pc = "done"
    /\ caller = "chat_endpoint"
    /\ pick.mode = "chat"
    /\ pick.names # <<>>
    /\ lookups = <<>>
    /\ response.kind = "ChatResponse"

-----------------------------------------------------------------------------
(* scripts/import_csv.py: one run of import_csv over a drawn CSV file *)

\* most data rows in a drawn CSV file
MaxCsvRows == 2

\* articles a CSV row or a stored item can carry
CsvArticles == {"X1", "X2"}

\* raw names of CSV rows: a word, and a name made of punctuation only
CsvNames == {<<"K", "o", "t">>, <<"-">>}

\* the other columns of a row taken together (project, cabinet, codes,
\* quantities, time template): two complete sets of values, and "" for a row
\* in which a required one is missing
CsvRests == {"", "r1", "r2"}

\* the mapped rows of a CSV file; article "" is a missing article
CsvRows == [article : CsvArticles \cup {""}, name : CsvNames, rest : CsvRests]

\* the items table: stored items by article
StoredItem(name, rest) ==
    [name |-> name, name_norm |-> normalize_text(name), rest |-> rest]

ItemTables ==
    UNION { [arts -> {StoredItem(<<"K", "o", "t">>, "r1")}] : arts \in SUBSET CsvArticles }

\* a dict with one more key, or one key rebound
dict_set(d, key, value) ==
    [x \in DOMAIN d \cup {key} |-> IF x = key THEN value ELSE d[x]]

\* the test of line 298 with the incremental flag ignored
skip_existing_never(article) == FALSE

\* `incremental and article in existing_articles`
skip_existing(article) ==
    pick.incremental /\ article \in pick.existing_articles

InitImport ==
    /\ settings \in {st \in SettingsSet :
                        st.use_pg_trgm /\ st.max_results_per_input = 1}
    /\ fuzz \in FuzzTables
    /\ Idle
    /\ \E rows \in SeqsUpTo(CsvRows, MaxCsvRows), table \in ItemTables,
          strict \in BOOLEAN, incremental \in BOOLEAN :
          pick = [kind |-> "import",
                  at |-> "start",
                  rows |-> rows,
                  strict |-> strict,
                  incremental |-> incremental,
                  items |-> table,
                  items_at_start |-> table,
                  existing_articles |-> {},
                  row |-> 1,
                  processed |-> 0,
                  skipped |-> 0,
                  missing_required |-> 0,
                  duplicate_articles |-> 0,
                  seen_articles |-> <<>>,
                  error_rows |-> <<>>,
                  upserts |-> <<>>]

ImportUnchanged ==
    UNCHANGED <<settings, fuzz, pc, caller, names, normalized, exact_by_norm,
                found_items, not_found, debug, seen_articles_per_input,
                global_seen_articles, idx, outcome, response, lookups, resolved>>

\* lines 245-250: in incremental mode the articles of the table are loaded
LoadExistingArticles ==
    /\ pick.kind = "import"
    /\ pick.at = "start"
    /\ pick' = [pick EXCEPT
                   !.existing_articles = IF pick.incremental THEN DOMAIN pick.items
                                         ELSE {},
                   !.at = "rows"]
    /\ ImportUnchanged

\* lines 254-350: one iteration of the loop over the rows of the file
ImportRow ==
    /\ pick.kind = "import"
    /\ pick.at = "rows"
    /\ pick.row <= Len(pick.rows)
    /\ LET mapped == pick.rows[pick.row]
           article == mapped.article
           name == mapped.name
           next == [pick EXCEPT !.row = pick.row + 1]
       IN  IF article = "" \/ name = <<>> \/ mapped.rest = ""
           THEN \* a required field is missing
                LET noted == [next EXCEPT
                                 !.missing_required = pick.missing_required + 1,
                                 !.skipped = pick.skipped + 1,
                                 !.error_rows = Append(pick.error_rows,
                                     [row_number |-> pick.row + 1,
                                      reason |-> "missing_required_fields"])]
                IN  pick' = IF pick.strict
                            THEN [noted EXCEPT !.at = "raised", !.row = pick.row]
                            ELSE noted
           ELSE IF skip_existing(article)
           THEN pick' = [next EXCEPT !.skipped = pick.skipped + 1]
           ELSE LET name_norm == normalize_text(name)
                    known == article \in DOMAIN pick.seen_articles
                    conflict == /\ known
                                /\ \/ pick.seen_articles[article].name # name
                                   \/ pick.seen_articles[article].rest # mapped.rest
                    checked == [next EXCEPT
                                   !.duplicate_articles =
                                       IF conflict THEN pick.duplicate_articles + 1
                                       ELSE pick.duplicate_articles,
                                   !.error_rows =
                                       IF conflict
                                       THEN Append(pick.error_rows,
                                                [row_number |-> pick.row + 1,
                                                 reason |-> "duplicate_article_conflict"])
                                       ELSE pick.error_rows,
                                   !.seen_articles =
                                       IF known THEN pick.seen_articles
                                       ELSE dict_set(pick.seen_articles, article,
                                                [name |-> name, rest |-> mapped.rest])]
                IN  pick' = IF conflict /\ pick.strict
                            THEN [checked EXCEPT !.at = "raised", !.row = pick.row]
                            ELSE [checked EXCEPT
                                     !.items = dict_set(pick.items, article,
                                                   [name |-> name,
                                                    name_norm |-> name_norm,
                                                    rest |-> mapped.rest]),
                                     !.upserts = Append(pick.upserts, article),
                                     !.processed = pick.processed + 1]
    /\ ImportUnchanged

\* lines 352-397: the file is read through; totals and reports are written
ImportEnds ==
    /\ pick.kind = "import"
    /\ pick.at = "rows"
    /\ pick.row > Len(pick.rows)
    /\ pick' = [pick EXCEPT !.at = "done"]
    /\ ImportUnchanged

NextImport ==
    \/ LoadExistingArticles
    \/ ImportRow
    \/ ImportEnds

SpecImport == InitImport /\ [][NextImport]_vars

\* the row the loop is at carries an article that was in the items table
\* when the import started
AtRowOfStoredArticle ==
    /\ pick.kind = "import"
    /\ pick.at = "rows"
    /\ pick.row <= Len(pick.rows)
    /\ pick.rows[pick.row].article \in DOMAIN pick.items_at_start

\* C28: in incremental mode a CSV row whose article was in the items table
\* when the import started is skipped: no upsert is issued for it, the stored
\* item is left unchanged, and the row is counted as skipped, not processed.
C28_IncrementalSkipsStoredArticles ==
    /\ []((pick.kind = "import" /\ pick.incremental) =>
            \A a \in DOMAIN pick.items_at_start :
                /\ a \in DOMAIN pick.items
                /\ pick.items[a] = pick.items_at_start[a])
    /\ [][(AtRowOfStoredArticle /\ pick.incremental) =>
            /\ pick'.upserts = pick.upserts
            /\ pick'.items = pick.items
            /\ pick'.skipped = pick.skipped + 1
            /\ pick'.processed = pick.processed]_vars

\* C28 witness: an incremental import has skipped a row that would have
\* changed a stored item and has upserted another row
C28_Witness ==
    /\ pick.kind = "import"
    /\ pick.incremental
    /\ pick.at = "done"
    /\ pick.skipped = 1
    /\ pick.processed = 1
    /\ pick.missing_required = 0
    /\ \E k \in 1..Len(pick.rows) :
          /\ pick.rows[k].article \in DOMAIN pick.items_at_start
          /\ pick.rows[k].name # pick.items_at_start[pick.rows[k].article].name

-----------------------------------------------------------------------------
(* Rows without an article *)

\* C29: every entry of found_items has a non-empty article: a row whose
\* article is null or empty is never accepted and adds nothing to the claimed
\* set, and the claimed set, at the end of the call as after every input,
\* equals the set of the articles of found_items.
C29_FoundEntriesCarryAnArticle ==
    InLoop =>
        /\ \A k \in 1..Len(found_items) : found_items[k].article \notin {None, ""}
        /\ None \notin global_seen_articles
        /\ "" \notin global_seen_articles
        /\ global_seen_articles
              = {found_items[k].article : k \in 1..Len(found_items)}

\* C29 witness: at the end of a call, an input whose only exact row has no
\* article was left without an entry and another input was found
C29_Witness ==
    /\ LoopDone
    /\ found_items # <<>>
    /\ \E i \in Processed :
          /\ normalized[i] \in DOMAIN exact_by_norm
          /\ \A j \in 1..Len(exact_by_norm[normalized[i]]) :
                exact_by_norm[normalized[i]][j].article = None
          /\ resolved[i].got = None

====
